---------------------------- MODULE Spec2Model ----------------------------
(***************************************************************************)
(* A model of the plot-thread core: the differential plot-header hasher    *)
(* (plot_header_hasher.go), the in-memory interaction pool                 *)
(* (interaction_queue_memory.go), and plots, plot work, tip comparison and *)
(* interactions (plot.go, interaction.go).                                 *)
(*                                                                         *)
(* Bytes are naturals 0..255, byte slices are sequences, and a Go offset   *)
(* o (0-based) addresses element o+1 of a sequence.  SHA3-256 is modelled  *)
(* as an injective tagging of its input.                                   *)
(***************************************************************************)
EXTENDS Integers, Sequences, FiniteSets, TLC

VARIABLES
    header,          \* the PlotHeader being scribed
    hasher,          \* its PlotHeaderHasher
    txQueue,         \* InteractionQueueMemory.txQueue, front first
    txMap,           \* InteractionQueueMemory.txMap: id -> position of its element (0: unlinked)
    imbalanceCache,  \* InteractionQueueMemory.imbalanceCache overlay: public key -> balance
    last,            \* the most recent pool call: its name, arguments and results
    addLog,          \* interactions accepted by Add while no batch call has run; whether only
                     \* Add calls have followed the last revalidation
    lock,            \* InteractionQueueMemory.lock: [writer, readers]
    procs,           \* concurrent callers: each one's call and position in it
    committed,       \* the pool state as of the last Unlock
    plot,            \* the Plot being built by the scriber, and what NewPlot returned
    calc,            \* the operands and the result of the latest computation
    graph,           \* Indexer.txGraph: [index, nodes, edges]
    rank,            \* Graph.Rank's position and locals, and the latest graph call
    idx,             \* the Indexer's fields and its worker's position in run()
    env              \* what surrounds the worker: ledger, processor, channels, Shutdown's caller

vars == <<header, hasher, txQueue, txMap, imbalanceCache, last, addLog,
          lock, procs, committed, plot, calc, graph, rank, idx, env>>

--------------------------------------------------------------------------
(* Bounds of the model.                                                    *)

\* time, nonce and interaction_count range over the values at which a
\* decimal text of up to MaxDigits + 1 characters changes length
MaxDigits == 1

\* the longest batch passed to AddBatch and RemoveBatch
MaxBatch == 2

\* RemoveBatch is called with the heights 0..MaxHeight and with the last
\* height of the first series
MaxHeight == 2

\* Get is called with the limits 0..MaxLimit
MaxLimit == 2

--------------------------------------------------------------------------
(* Byte-level helpers.                                                     *)

RECURSIVE Pow10(_)
Pow10(k) == IF k = 0 THEN 1 ELSE 10 * Pow10(k - 1)

RECURSIVE Digits(_)
Digits(n) == IF n < 10 THEN <<48 + n>> ELSE Digits(n \div 10) \o <<48 + (n % 10)>>

\* An int64 is held as its sign and its base-10^9 limbs, the most
\* significant first, with no leading zero limb: a machine integer of the
\* checker has 32 bits only.
Limb == Pow10(9)

\* the int64 of a value that fits 32 bits; int64(v) of an int32 v
I64(n) ==
    LET a == IF n < 0 THEN 0 - n ELSE n
    IN  [ neg |-> n < 0,
          limbs |-> IF a < Limb THEN <<a>> ELSE <<a \div Limb, a % Limb>> ]

\* math.MaxInt64 = 9223372036854775807
MaxInt64 == [ neg |-> FALSE, limbs |-> <<9, 223372036, 854775807>> ]

\* math.MaxInt32
MaxInt32 == 2147483647

\* a limb below the first: nine characters, zeros in front
PadLimb(n) == [i \in 1..(9 - Len(Digits(n))) |-> 48] \o Digits(n)

RECURSIVE LowerLimbs(_, _)
LowerLimbs(limbs, i) ==
    IF i > Len(limbs) THEN <<>> ELSE PadLimb(limbs[i]) \o LowerLimbs(limbs, i + 1)

\* strconv.AppendInt(dst, v, 10): the text appended
AppendInt(v) ==
    (IF v.neg THEN <<45>> ELSE <<>>) \o Digits(v.limbs[1]) \o LowerLimbs(v.limbs, 2)

\* one character of encoding/hex's table "0123456789abcdef"
HexDigit(n) == IF n < 10 THEN 48 + n ELSE 87 + n

\* hex.Encode(dst, src): the text written, two characters per byte
HexEncode(src) ==
    [i \in 1..(2 * Len(src)) |->
        IF i % 2 = 1 THEN HexDigit(src[(i + 1) \div 2] \div 16)
                     ELSE HexDigit(src[i \div 2] % 16)]

\* copy(buf[off:], bytes), and an append or encode into the same backing
\* array: the bytes land at offset off, the rest of the array is kept
WriteAt(buf, off, bytes) ==
    SubSeq(buf, 1, off) \o bytes \o SubSeq(buf, off + Len(bytes) + 1, Len(buf))

\* sha3 over a byte sequence
Sha3(bytes) == <<"sha3-256", bytes>>

--------------------------------------------------------------------------
(* Identifiers.                                                            *)

IdLen == 32

FillID(b) == [i \in 1..IdLen |-> b]
RampID(k) == [i \in 1..IdLen |-> (k * i) % 256]

--------------------------------------------------------------------------
(* Static fields of the hasher.                                            *)

\* {"previous":"
hdrPrevious ==
    <<123, 34, 112, 114, 101, 118, 105, 111, 117, 115, 34, 58, 34>>
\* ","hash_list_root":"
hdrHashListRoot ==
    <<34, 44, 34, 104, 97, 115, 104, 95, 108, 105, 115, 116, 95, 114, 111, 111, 116, 34, 58, 34>>
\* ","time":
hdrTime ==
    <<34, 44, 34, 116, 105, 109, 101, 34, 58>>
\* ,"target":"
hdrTarget ==
    <<44, 34, 116, 97, 114, 103, 101, 116, 34, 58, 34>>
\* ","thread_work":"
hdrThreadWork ==
    <<34, 44, 34, 116, 104, 114, 101, 97, 100, 95, 119, 111, 114, 107, 34, 58, 34>>
\* ","nonce":
hdrNonce ==
    <<34, 44, 34, 110, 111, 110, 99, 101, 34, 58>>
\* ,"height":
hdrHeight ==
    <<44, 34, 104, 101, 105, 103, 104, 116, 34, 58>>
\* ,"interaction_count":
hdrInteractionCount ==
    <<44, 34, 105, 110, 116, 101, 114, 97, 99, 116, 105, 111, 110, 95, 99, 111, 117, 110, 116, 34, 58>>
\* }
hdrEnd ==
    <<125>>

--------------------------------------------------------------------------
(* Canonical JSON of a PlotHeader: encoding/json over the struct tags.     *)

tagPrevious ==
    <<112, 114, 101, 118, 105, 111, 117, 115>>
tagHashListRoot ==
    <<104, 97, 115, 104, 95, 108, 105, 115, 116, 95, 114, 111, 111, 116>>
tagTime ==
    <<116, 105, 109, 101>>
tagTarget ==
    <<116, 97, 114, 103, 101, 116>>
tagThreadWork ==
    <<116, 104, 114, 101, 97, 100, 95, 119, 111, 114, 107>>
tagNonce ==
    <<110, 111, 110, 99, 101>>
tagHeight ==
    <<104, 101, 105, 103, 104, 116>>
tagInteractionCount ==
    <<105, 110, 116, 101, 114, 97, 99, 116, 105, 111, 110, 95, 99, 111, 117, 110, 116>>

\* "name":
JsonKey(tag) == <<34>> \o tag \o <<34, 58>>

\* PlotID.MarshalJSON / InteractionID.MarshalJSON: "\"" + hex + "\""
MarshalID(id) == <<34>> \o HexEncode(id) \o <<34>>

\* json.Marshal(header): the fields in declaration order, comma separated
MarshalHeader(hd) ==
    <<123>>
    \o JsonKey(tagPrevious) \o MarshalID(hd.Previous) \o <<44>>
    \o JsonKey(tagHashListRoot) \o MarshalID(hd.HashListRoot) \o <<44>>
    \o JsonKey(tagTime) \o AppendInt(hd.Time) \o <<44>>
    \o JsonKey(tagTarget) \o MarshalID(hd.Target) \o <<44>>
    \o JsonKey(tagThreadWork) \o MarshalID(hd.ThreadWork) \o <<44>>
    \o JsonKey(tagNonce) \o AppendInt(hd.Nonce) \o <<44>>
    \o JsonKey(tagHeight) \o AppendInt(hd.Height) \o <<44>>
    \o JsonKey(tagInteractionCount) \o AppendInt(I64(hd.InteractionCount))
    \o <<125>>

\* PlotHeader.ID
HeaderID(hd) == Sha3(MarshalHeader(hd))

--------------------------------------------------------------------------
(* PlotHeaderHasher.                                                       *)

\* BufCap as it would be with room for 18 characters per 64-bit field
BufCapShort ==
    Len(hdrPrevious) + Len(hdrHashListRoot) + Len(hdrTime) + Len(hdrTarget)
    + Len(hdrThreadWork) + Len(hdrNonce) + Len(hdrHeight) + Len(hdrInteractionCount)
    + Len(hdrEnd) + 4 * 64 + 3 * 18 + 10

\* the buffer length NewPlotHeaderHasher allocates
BufCap ==
    Len(hdrPrevious) + Len(hdrHashListRoot) + Len(hdrTime) + Len(hdrTarget)
    + Len(hdrThreadWork) + Len(hdrNonce) + Len(hdrHeight) + Len(hdrInteractionCount)
    + Len(hdrEnd) + 4 * 64 + 3 * 19 + 10

NewPlotHeaderHasher ==
    [ previousHashListRoot     |-> FillID(0),
      previousTime             |-> I64(0),
      previousNonce            |-> I64(0),
      previousInteractionCount |-> 0,
      hashListRootOffset       |-> 0,
      timeOffset               |-> 0,
      nonceOffset              |-> 0,
      interactionCountOffset   |-> 0,
      timeLen                  |-> 0,
      nonceLen                 |-> 0,
      txCountLen               |-> 0,
      initialized              |-> FALSE,
      bufLen                   |-> 0,
      buffer                   |-> [i \in 1..BufCap |-> 0],
      result                   |-> Sha3(<<>>),
      hashesPerAttempt         |-> 1 ]

\* Initialize the buffer to be hashed
initBuffer(h, hd) ==
    LET \* previous
        b0 == WriteAt(h.buffer, 0, hdrPrevious)
        n0 == Len(hdrPrevious)
        b1 == WriteAt(b0, n0, HexEncode(hd.Previous))
        n1 == n0 + 2 * Len(hd.Previous)
        \* hash_list_root
        b2 == WriteAt(b1, n1, hdrHashListRoot)
        hashListRootOffset == n1 + Len(hdrHashListRoot)
        b3 == WriteAt(b2, hashListRootOffset, HexEncode(hd.HashListRoot))
        n3 == hashListRootOffset + 2 * Len(hd.HashListRoot)
        \* time
        b4 == WriteAt(b3, n3, hdrTime)
        timeOffset == n3 + Len(hdrTime)
        timeTxt == AppendInt(hd.Time)
        b5 == WriteAt(b4, timeOffset, timeTxt)
        timeLen == Len(timeTxt)
        n5 == timeOffset + timeLen
        \* target
        b6 == WriteAt(b5, n5, hdrTarget)
        n6 == n5 + Len(hdrTarget)
        b7 == WriteAt(b6, n6, HexEncode(hd.Target))
        n7 == n6 + 2 * Len(hd.Target)
        \* thread_work
        b8 == WriteAt(b7, n7, hdrThreadWork)
        n8 == n7 + Len(hdrThreadWork)
        b9 == WriteAt(b8, n8, HexEncode(hd.ThreadWork))
        n9 == n8 + 2 * Len(hd.ThreadWork)
        \* nonce
        b10 == WriteAt(b9, n9, hdrNonce)
        nonceOffset == n9 + Len(hdrNonce)
        nonceTxt == AppendInt(hd.Nonce)
        b11 == WriteAt(b10, nonceOffset, nonceTxt)
        nonceLen == Len(nonceTxt)
        n11 == nonceOffset + nonceLen
        \* height
        b12 == WriteAt(b11, n11, hdrHeight)
        n12 == n11 + Len(hdrHeight)
        heightTxt == AppendInt(hd.Height)
        b13 == WriteAt(b12, n12, heightTxt)
        n13 == n12 + Len(heightTxt)
        \* interaction_count
        b14 == WriteAt(b13, n13, hdrInteractionCount)
        interactionCountOffset == n13 + Len(hdrInteractionCount)
        countTxt == AppendInt(I64(hd.InteractionCount))
        b15 == WriteAt(b14, interactionCountOffset, countTxt)
        txCountLen == Len(countTxt)
        n15 == interactionCountOffset + txCountLen
        b16 == WriteAt(b15, n15, hdrEnd)
    IN  [ h EXCEPT
            !.previousHashListRoot     = hd.HashListRoot,
            !.hashListRootOffset       = hashListRootOffset,
            !.previousTime             = hd.Time,
            !.timeOffset               = timeOffset,
            !.timeLen                  = timeLen,
            !.previousNonce            = hd.Nonce,
            !.nonceOffset              = nonceOffset,
            !.nonceLen                 = nonceLen,
            !.previousInteractionCount = hd.InteractionCount,
            !.interactionCountOffset   = interactionCountOffset,
            !.txCountLen               = txCountLen,
            !.bufLen                   = Len(hdrEnd) + n15,
            !.buffer                   = b16,
            !.initialized              = TRUE ]

\* Update, "hash_list_root": the 64 characters are overwritten in place
UpdateHashListRoot(h, hd) ==
    IF h.previousHashListRoot # hd.HashListRoot
    THEN [ h EXCEPT !.previousHashListRoot = hd.HashListRoot,
                    !.buffer = WriteAt(@, h.hashListRootOffset,
                                       HexEncode(hd.HashListRoot)) ]
    ELSE h

\* what follows the time when its length changed: target, thread_work and
\* the start of nonce
TimeSuffix(hd) ==
    hdrTarget \o HexEncode(hd.Target) \o hdrThreadWork
    \o HexEncode(hd.ThreadWork) \o hdrNonce

\* Update, "time": returns the hasher and the running offset
UpdateTime(h, hd) ==
    IF h.previousTime # hd.Time
    THEN LET txt     == AppendInt(hd.Time)
             timeLen == Len(txt)
             bufLen  == h.timeOffset + timeLen
             offset  == timeLen - h.timeLen
             written == WriteAt(h.buffer, h.timeOffset, txt)
         IN  [ h |-> [ h EXCEPT
                         !.previousTime = hd.Time,
                         !.timeLen = timeLen,
                         !.buffer = IF offset # 0
                                    THEN WriteAt(written, bufLen, TimeSuffix(hd))
                                    ELSE written ],
               offset |-> offset ]
    ELSE [ h |-> h, offset |-> 0 ]

deviceScribing == FALSE

\* what follows the nonce when the running offset is not zero: height and
\* the start of interaction_count
NonceSuffix(hd) ==
    hdrHeight \o AppendInt(hd.Height) \o hdrInteractionCount

\* UpdateNonce as it would be if the nonce were rewritten only when its own
\* value changed, not when the time before it changed length
UpdateNonceOnlyOnChange(st, hd) ==
    LET h == st.h IN
    IF ~deviceScribing /\ h.previousNonce # hd.Nonce
    THEN LET nonceOffset == h.nonceOffset + st.offset
             txt      == AppendInt(hd.Nonce)
             nonceLen == Len(txt)
             offset   == st.offset + (nonceLen - h.nonceLen)
             written  == WriteAt(h.buffer, nonceOffset, txt)
         IN  [ h |-> [ h EXCEPT
                         !.previousNonce = hd.Nonce,
                         !.nonceOffset = nonceOffset,
                         !.nonceLen = nonceLen,
                         !.buffer = IF offset # 0
                                    THEN WriteAt(written, nonceOffset + nonceLen,
                                                 NonceSuffix(hd))
                                    ELSE written ],
               offset |-> offset ]
    ELSE st

\* Update, "nonce"
UpdateNonce(st, hd) ==
    LET h == st.h IN
    IF st.offset # 0 \/ (~deviceScribing /\ h.previousNonce # hd.Nonce)
    THEN LET nonceOffset == h.nonceOffset + st.offset
             txt      == AppendInt(hd.Nonce)
             nonceLen == Len(txt)
             offset   == st.offset + (nonceLen - h.nonceLen)
             written  == WriteAt(h.buffer, nonceOffset, txt)
         IN  [ h |-> [ h EXCEPT
                         !.previousNonce = hd.Nonce,
                         !.nonceOffset = nonceOffset,
                         !.nonceLen = nonceLen,
                         !.buffer = IF offset # 0
                                    THEN WriteAt(written, nonceOffset + nonceLen,
                                                 NonceSuffix(hd))
                                    ELSE written ],
               offset |-> offset ]
    ELSE st

\* Update, "interaction_count"
UpdateInteractionCount(st, hd) ==
    LET h == st.h IN
    IF st.offset # 0 \/ h.previousInteractionCount # hd.InteractionCount
    THEN LET interactionCountOffset == h.interactionCountOffset + st.offset
             txt        == AppendInt(I64(hd.InteractionCount))
             txCountLen == Len(txt)
             offset     == st.offset + (txCountLen - h.txCountLen)
             written    == WriteAt(h.buffer, interactionCountOffset, txt)
         IN  [ h |-> [ h EXCEPT
                         !.previousInteractionCount = hd.InteractionCount,
                         !.interactionCountOffset = interactionCountOffset,
                         !.txCountLen = txCountLen,
                         !.buffer = IF offset # 0
                                    THEN WriteAt(written,
                                                 interactionCountOffset + txCountLen,
                                                 hdrEnd)
                                    ELSE written ],
               offset |-> offset ]
    ELSE st

\* Update up to the hashing: the buffer and its bookkeeping
UpdateBuffer(h, hd) ==
    IF ~h.initialized
    THEN initBuffer(h, hd)
    ELSE LET st == UpdateInteractionCount(
                       UpdateNonce(UpdateTime(UpdateHashListRoot(h, hd), hd), hd), hd)
         IN  [ st.h EXCEPT !.bufLen = @ + st.offset ]

\* PlotHeaderHasher.Update: the hasher after the call; its result is the
\* value returned
Update(h, hd) ==
    LET u == UpdateBuffer(h, hd)
    IN  [ u EXCEPT !.result = Sha3(SubSeq(u.buffer, 1, u.bufLen)) ]

--------------------------------------------------------------------------
(* Interactions.                                                           *)

\* the public key of a plotroot's sender: 32 zero bytes
baseKey == "AAAA"

\* Interaction.IsPlotroot
IsPlotroot(tx) == tx.From = baseKey

\* ID as it would be if the signature were left in
InteractionIDWithSignature(tx) == Sha3(tx)

\* Interaction.ID: the signature is cleared, then the JSON is hashed
InteractionID(tx) == Sha3([tx EXCEPT !.Signature = <<>>])

\* IsMature as it would be if the height of maturity were too early
IsMatureStrict(tx, height) ==
    IF tx.Matures = 0 THEN TRUE ELSE tx.Matures > height

\* Interaction.IsMature
IsMature(tx, height) ==
    IF tx.Matures = 0 THEN TRUE ELSE tx.Matures >= height

\* Interaction.IsExpired
IsExpired(tx, height) ==
    IF tx.Expires = 0 THEN FALSE ELSE tx.Expires < height

\* the division as it would be if it rounded down
GoDivFloors(a, b) == a \div b

\* Go's integer division truncates toward zero
GoDiv(a, b) == IF a >= 0 THEN a \div b ELSE -((-a) \div b)

\* upstream value; the fragments reference it without defining it
PLOTS_UNTIL_NEW_SERIES == 1008

\* Compute the series to use for a new interaction.
computeInteractionSeries(isPlotroot, height) ==
    IF isPlotroot
    THEN GoDiv(height, PLOTS_UNTIL_NEW_SERIES) + 1
    ELSE GoDiv(height - 100, PLOTS_UNTIL_NEW_SERIES) + 1

\* the series rule: the interaction's series is the one computed for its
\* category at the height
checkInteractionSeries(tx, height) ==
    tx.Series = computeInteractionSeries(IsPlotroot(tx), height)

--------------------------------------------------------------------------
(* Maps with a growing and shrinking key set.                              *)

EmptyMap == [k \in {} |-> 0]
MapPut(m, k, v) == [x \in (DOMAIN m) \cup {k} |-> IF x = k THEN v ELSE m[x]]
MapDelete(m, k) == [x \in (DOMAIN m) \ {k} |-> m[x]]

--------------------------------------------------------------------------
(* ImbalanceCache: an overlay over the ledger's confirmed balances.  The   *)
(* amount an interaction moves is carried by the interaction.  Ledger      *)
(* lookups succeed.                                                        *)

\* Ledger.get_balance
LedgerBalance(pk) == IF pk = "A" THEN 2 ELSE 0

\* cache hit, else ledger
Lookup(cache, pk) == IF pk \in DOMAIN cache THEN cache[pk] ELSE LedgerBalance(pk)

\* ImbalanceCache.Reset
Reset == EmptyMap

\* ImbalanceCache.Apply: [ok, cache]
Apply(cache, tx) ==
    LET senderBalance == Lookup(cache, tx.From)
        debited == IF IsPlotroot(tx) THEN cache
                   ELSE MapPut(cache, tx.From, senderBalance - tx.Amount)
        credited == MapPut(debited, tx.To, Lookup(debited, tx.To) + tx.Amount)
    IN  IF ~IsPlotroot(tx) /\ senderBalance < tx.Amount
        THEN [ ok |-> FALSE, cache |-> cache ]
        ELSE [ ok |-> TRUE, cache |-> credited ]

--------------------------------------------------------------------------
(* InteractionQueueMemory.  Within a call the pool is a record             *)
(*   q: the list, front first, of elements [e: element, tx: its value]     *)
(*   m: txMap, id -> element                                               *)
(*   c: the imbalance cache overlay                                        *)
(*   n: the next element to allocate                                       *)
(* Between calls elements are named by their position in the list, and an  *)
(* element no longer in a list is named 0.                                 *)

\* list.Remove(e): no effect when e is not an element of the list
ListRemove(q, e) == SelectSeq(q, LAMBDA x : x.e # e)

\* list.PushFront of a new element
PushFront(q, e, tx) == <<[e |-> e, tx |-> tx]>> \o q

\* PushBack as it would be if it put the element first
PushBackInFront(q, e, tx) == PushFront(q, e, tx)

\* list.PushBack of a new element
PushBack(q, e, tx) == Append(q, [e |-> e, tx |-> tx])

\* Add as it would be without the look-up of the id
AddNoExistsCheck(p, id, tx) ==
    LET a == Apply(p.c, tx) IN
    IF ~a.ok
    THEN [ p |-> [p EXCEPT !.c = a.cache], ok |-> FALSE,
           err |-> "insufficient imbalance" ]
    ELSE [ p |-> [ p EXCEPT !.c = a.cache,
                            !.q = PushBack(p.q, p.n, tx),
                            !.m = MapPut(p.m, id, p.n),
                            !.n = p.n + 1 ],
           ok |-> TRUE, err |-> "nil" ]

\* Add as it would be if it reported the insufficient imbalance and went on
\* to enqueue
AddEnqueuesRejected(p, id, tx) ==
    IF id \in DOMAIN p.m
    THEN [ p |-> p, ok |-> FALSE, err |-> "nil" ]
    ELSE LET a == Apply(p.c, tx) IN
         [ p |-> [ p EXCEPT !.c = a.cache,
                            !.q = PushBack(p.q, p.n, tx),
                            !.m = MapPut(p.m, id, p.n),
                            !.n = p.n + 1 ],
           ok |-> a.ok,
           err |-> IF a.ok THEN "nil" ELSE "insufficient imbalance" ]

\* Add: [p, ok, err]
Add(p, id, tx) ==
    IF id \in DOMAIN p.m
    THEN \* already exists
         [ p |-> p, ok |-> FALSE, err |-> "nil" ]
    ELSE LET a == Apply(p.c, tx) IN
         IF ~a.ok
         THEN \* insufficient sender imbalance
              [ p |-> [p EXCEPT !.c = a.cache], ok |-> FALSE,
                err |-> "insufficient imbalance" ]
         ELSE \* add to the back of the queue
              [ p |-> [ p EXCEPT !.c = a.cache,
                                 !.q = PushBack(p.q, p.n, tx),
                                 !.m = MapPut(p.m, id, p.n),
                                 !.n = p.n + 1 ],
                ok |-> TRUE, err |-> "nil" ]

\* AddBatch's loop body as it would be without the removal of the old element
AddBatchStepKeepsOld(p, id, tx) ==
    [ p EXCEPT !.q = PushFront(p.q, p.n, tx),
               !.m = MapPut(p.m, id, p.n),
               !.n = p.n + 1 ]

\* AddBatch's loop body for index i (1-based)
AddBatchStep(p, id, tx) ==
    LET q1 == IF id \in DOMAIN p.m
              THEN \* remove it from its current position
                   ListRemove(p.q, p.m[id])
              ELSE p.q
    IN  [ p EXCEPT !.q = PushFront(q1, p.n, tx),
                   !.m = MapPut(p.m, id, p.n),
                   !.n = p.n + 1 ]

\* AddBatch's loop as it would be from the first index up
RECURSIVE AddBatchLoopForward(_, _, _, _)
AddBatchLoopForward(p, ids, txs, i) ==
    IF i = 0 THEN p
    ELSE AddBatchLoopForward(
             AddBatchStep(p, ids[Len(txs) - i + 1], txs[Len(txs) - i + 1]),
             ids, txs, i - 1)

\* AddBatch's loop: add to front in reverse order, i from len(txs) down
RECURSIVE AddBatchLoop(_, _, _, _)
AddBatchLoop(p, ids, txs, i) ==
    IF i = 0 THEN p
    ELSE AddBatchLoop(AddBatchStep(p, ids[i], txs[i]), ids, txs, i - 1)

\* AddBatch: height is not used
AddBatch(p, ids, txs, height) ==
    [ p |-> AddBatchLoop(p, ids, txs, Len(txs)), err |-> "nil" ]

\* RemoveBatch's loop body as it would be without the delete from the map
RemoveBatchStepKeepsKey(p, id) ==
    IF id \notin DOMAIN p.m THEN p
    ELSE [ p EXCEPT !.q = ListRemove(p.q, p.m[id]) ]

\* RemoveBatch's loop body for one id
RemoveBatchStep(p, id) ==
    IF id \notin DOMAIN p.m
    THEN \* not in the queue
         p
    ELSE \* remove it
         [ p EXCEPT !.q = ListRemove(p.q, p.m[id]), !.m = MapDelete(p.m, id) ]

RECURSIVE RemoveBatchLoop(_, _, _)
RemoveBatchLoop(p, ids, i) ==
    IF i > Len(ids) THEN p
    ELSE RemoveBatchLoop(RemoveBatchStep(p, ids[i]), ids, i + 1)

\* reprocessQueue: whether the interaction is dropped before the imbalance check
Invalidated(tx, height) ==
    \/ ~checkInteractionSeries(tx, height + 1)
    \/ ~IsMature(tx, height + 1)
    \/ IsExpired(tx, height + 1)

\* reprocessQueue's removal of an invalidated interaction
Invalidate(p, tx) ==
    LET id == InteractionID(tx)
        e  == p.m[id]
    IN  [ p EXCEPT !.q = ListRemove(p.q, e), !.m = MapDelete(p.m, id) ]

\* reprocessQueue's loop body as it would be if it kept what Apply rejects
ReprocessStepKeepsRejected(p, tx, height) ==
    IF Invalidated(tx, height)
    THEN Invalidate(p, tx)
    ELSE [ p EXCEPT !.c = Apply(p.c, tx).cache ]

\* reprocessQueue's loop body for one element of tmpQueue
ReprocessStep(p, tx, height) ==
    IF Invalidated(tx, height)
    THEN Invalidate(p, tx)
    ELSE LET a == Apply(p.c, tx) IN
         IF ~a.ok THEN Invalidate([p EXCEPT !.c = a.cache], tx)
         ELSE [p EXCEPT !.c = a.cache]

RECURSIVE ReprocessLoop(_, _, _, _)
ReprocessLoop(p, tmpQueue, i, height) ==
    IF i > Len(tmpQueue) THEN p
    ELSE ReprocessLoop(ReprocessStep(p, tmpQueue[i], height), tmpQueue, i + 1, height)

\* reprocessQueue as it would be without the reset of the cache
reprocessQueueNoReset(p, height) ==
    LET tmpQueue == [i \in 1..Len(p.q) |-> p.q[i].tx]
    IN  ReprocessLoop(p, tmpQueue, 1, height)

\* Rebuild the imbalance cache and remove interactions now in violation
reprocessQueue(p, height) ==
    LET tmpQueue == [i \in 1..Len(p.q) |-> p.q[i].tx]
    IN  ReprocessLoop([p EXCEPT !.c = Reset], tmpQueue, 1, height)

\* RemoveBatch as it would be if it always deferred the revalidation
RemoveBatchNeverReprocesses(p, ids, height, more) ==
    [ p |-> RemoveBatchLoop(p, ids, 1), err |-> "nil" ]

\* RemoveBatch
RemoveBatch(p, ids, height, more) ==
    LET removed == RemoveBatchLoop(p, ids, 1) IN
    IF more THEN [ p |-> removed, err |-> "nil" ]
    ELSE [ p |-> reprocessQueue(removed, height), err |-> "nil" ]

\* a slot of Get's result that no interaction was written to
nilTx == "nil"

\* Get's loop from list position i (0-based count of slots filled)
RECURSIVE GetLoop(_, _, _, _)
GetLoop(q, txs, i, limit) ==
    IF i >= Len(q) THEN txs
    ELSE LET filled == [txs EXCEPT ![i + 1] = q[i + 1].tx] IN
         IF i + 1 = limit THEN filled ELSE GetLoop(q, filled, i + 1, limit)

\* Get as it would be if every limit were the limit 0
GetIgnoresLimit(p, limit) ==
    GetLoop(p.q, [i \in 1..Len(p.q) |-> nilTx], 0, 0)

\* Get returns interactions in the queue for the scriber.
Get(p, limit) ==
    LET size == IF limit = 0 \/ Len(p.q) < limit THEN Len(p.q) ELSE limit
    IN  GetLoop(p.q, [i \in 1..size |-> nilTx], 0, limit)

\* Exists
Exists(p, id) == id \in DOMAIN p.m

\* the value of the element a map entry points to
ElementValue(p, e) == (CHOOSE x \in { p.q[i] : i \in 1..Len(p.q) } : x.e = e).tx

\* ExistsSigned
ExistsSigned(p, id, signature) ==
    IF id \in DOMAIN p.m
    THEN ElementValue(p, p.m[id]).Signature = signature
    ELSE FALSE

\* Len
QueueLen(p) == Len(p.q)

--------------------------------------------------------------------------
(* The states of the parts a specification leaves alone.                   *)

NoCall == [ op |-> "none" ]

\* nothing is being scribed
HasherIdle ==
    /\ header = <<>>
    /\ hasher = <<>>

NoLog == [ valid |-> FALSE, txs |-> <<>>, revalidated |-> FALSE ]

PoolIdle ==
    /\ txQueue = <<>>
    /\ txMap = EmptyMap
    /\ imbalanceCache = EmptyMap
    /\ last = NoCall
    /\ addLog = NoLog

ConcIdle ==
    /\ lock = [ writer |-> 0, readers |-> {} ]
    /\ procs = <<>>
    /\ committed = <<>>

\* no plot is being built and nothing is being computed
PlotIdle ==
    /\ plot = <<>>
    /\ calc = <<>>

\* no graph has been built and no indexer has been constructed
IndexerIdle ==
    /\ graph = <<>>
    /\ rank = <<>>
    /\ idx = <<>>
    /\ env = <<>>

hasherVars == <<header, hasher>>
plotVars == <<plot, calc>>
indexerVars == <<graph, rank, idx, env>>
poolVars == <<txQueue, txMap, imbalanceCache, last, addLog>>
concVars == <<lock, procs, committed>>

--------------------------------------------------------------------------
(* Scribing: the header is mutated and hashed again.                       *)

\* values of every decimal length up to MaxDigits + 1, two of them of the
\* same length
DecimalEdges == {0} \cup { Pow10(k) : k \in 0..MaxDigits }

\* header.Time: any int64, a negative one too
Times == { I64(n) : n \in DecimalEdges \cup {-1} }

\* header.Nonce: rand.Int63n(MAX_NUMBER) and up
Nonces == { I64(n) : n \in DecimalEdges }

\* header.InteractionCount: a plot holds at least its plotroot
Counts == DecimalEdges \ {0}

HashListRoots == { FillID(0), RampID(7) }

\* the scriber's header at height
FirstHeader(height) ==
    [ Previous         |-> RampID(3),
      HashListRoot     |-> FillID(0),
      Time             |-> I64(0),
      Target           |-> FillID(15),
      ThreadWork       |-> RampID(11),
      Nonce            |-> I64(0),
      Height           |-> height,
      InteractionCount |-> 1 ]

InitHasher ==
    /\ header = FirstHeader(I64(12))
    /\ hasher = NewPlotHeaderHasher
    /\ PoolIdle
    /\ ConcIdle
    /\ PlotIdle
    /\ IndexerIdle

\* PlotHeader.IDFast after the scriber changed hash_list_root, time, nonce
\* and interaction_count (any of them, or none)
IDFast(root, time, nonce, count) ==
    /\ header' = [ header EXCEPT !.HashListRoot = root, !.Time = time,
                                 !.Nonce = nonce, !.InteractionCount = count ]
    /\ hasher' = Update(hasher, header')
    /\ UNCHANGED <<poolVars, concVars, plotVars, indexerVars>>

NextHasher ==
    \E root \in HashListRoots, time \in Times, nonce \in Nonces, count \in Counts :
        IDFast(root, time, nonce, count)

SpecHasher == InitHasher /\ [][NextHasher]_vars

\* C1: after every Update the buffer prefix buffer[0:bufLen] is the canonical
\* JSON of the current header, and the value returned is the header's ID.
HasherEquivalence ==
    hasher.initialized =>
        /\ SubSeq(hasher.buffer, 1, hasher.bufLen) = MarshalHeader(header)
        /\ hasher.result = HeaderID(header)

\* C1 witness: an incremental Update has run in which the time shrank and the
\* nonce and the count grew in length at once
HasherShiftedWitness ==
    /\ hasher.initialized
    /\ hasher.timeLen = 1
    /\ hasher.nonceLen = MaxDigits + 1
    /\ hasher.txCountLen = MaxDigits
    /\ hasher.previousHashListRoot # FillID(0)
    /\ hasher.bufLen # Len(MarshalHeader([header EXCEPT !.Time = I64(0), !.Nonce = I64(0),
                                                       !.InteractionCount = 0]))

--------------------------------------------------------------------------
(* The pool and its callers, one call at a time.                           *)

Interaction(nonce, from, to, amount, matures, expires, series, signature) ==
    [ Time |-> 0, Nonce |-> nonce, From |-> from, To |-> to, Memo |-> "",
      Amount |-> amount, Matures |-> matures, Expires |-> expires,
      Series |-> series, Signature |-> signature ]

\* A spends all of its balance
T1  == Interaction(1, "A", "B", 2, 0, 0, 1, <<1>>)
\* T1 signed again: the same id, another signature
T1x == Interaction(1, "A", "B", 2, 0, 0, 1, <<2>>)
\* expires after height 1
T2  == Interaction(2, "A", "B", 1, 0, 1, 1, <<1>>)
\* B can only spend what it received; matures stops holding after height 2
T3  == Interaction(3, "B", "A", 1, 2, 0, 1, <<1>>)
\* of the second series
T4  == Interaction(4, "A", "B", 1, 0, 0, 2, <<1>>)

Interactions == { T1, T1x, T2, T3, T4 }

InteractionIDs == { InteractionID(tx) : tx \in Interactions }

Signatures == { tx.Signature : tx \in Interactions }

SeqsUpTo(S, n) == UNION { [1..k -> S] : k \in 0..n }

IdsOf(txs) == [i \in 1..Len(txs) |-> InteractionID(txs[i])]

\* a disconnected plot's interactions: their ids are pairwise distinct
Batches ==
    { txs \in SeqsUpTo(Interactions, MaxBatch) :
        \A i, j \in 1..Len(txs) :
            InteractionID(txs[i]) = InteractionID(txs[j]) => i = j }

IdBatches == SeqsUpTo(InteractionIDs, MaxBatch)

Heights == (0..MaxHeight) \cup { PLOTS_UNTIL_NEW_SERIES + 99 }

Limits == 0..MaxLimit

\* the pool as a call finds it
Pool ==
    [ q |-> [i \in 1..Len(txQueue) |-> [e |-> i, tx |-> txQueue[i]]],
      m |-> txMap,
      c |-> imbalanceCache,
      n |-> Len(txQueue) + 1 ]

Position(q, e) ==
    IF \E i \in 1..Len(q) : q[i].e = e
    THEN CHOOSE i \in 1..Len(q) : q[i].e = e
    ELSE 0

\* the pool as a call leaves it
Leave(p) ==
    /\ txQueue' = [i \in 1..Len(p.q) |-> p.q[i].tx]
    /\ txMap' = [id \in DOMAIN p.m |-> Position(p.q, p.m[id])]
    /\ imbalanceCache' = p.c

\* what a caller holds of a call: its arguments, its results and the pool
\* it was made on
Call(op, args, res) ==
    [ op |-> op, args |-> args, res |-> res,
      preQueue |-> txQueue, preMap |-> txMap, preCache |-> imbalanceCache ]

Idle == last.op = "none"

CallAdd(tx) ==
    LET r == Add(Pool, InteractionID(tx), tx) IN
    /\ Idle
    /\ Leave(r.p)
    /\ last' = Call("Add", [id |-> InteractionID(tx), tx |-> tx],
                    [ok |-> r.ok, err |-> r.err])
    /\ addLog' = IF addLog.valid /\ r.ok
                 THEN [addLog EXCEPT !.txs = Append(@, tx)]
                 ELSE addLog
    /\ UNCHANGED <<hasherVars, concVars, plotVars, indexerVars>>

CallAddBatch(txs, height) ==
    LET r == AddBatch(Pool, IdsOf(txs), txs, height) IN
    /\ Idle
    /\ Leave(r.p)
    /\ last' = Call("AddBatch", [ids |-> IdsOf(txs), txs |-> txs],
                    [err |-> r.err])
    /\ addLog' = NoLog
    /\ UNCHANGED <<hasherVars, concVars, plotVars, indexerVars>>

CallRemoveBatch(ids, height, more) ==
    LET r == RemoveBatch(Pool, ids, height, more) IN
    /\ Idle
    /\ Leave(r.p)
    /\ last' = Call("RemoveBatch",
                    [ids |-> ids, height |-> height, more |-> more, reorg |-> FALSE],
                    [err |-> r.err])
    /\ addLog' = [ NoLog EXCEPT !.revalidated = ~more ]
    /\ UNCHANGED <<hasherVars, concVars, plotVars, indexerVars>>

\* a plot was disconnected and connected again: RemoveBatch of the ids that the
\* AddBatch just returned from was given, with no more connections to come
CallReorgRemoveBatch(height) ==
    LET r == RemoveBatch(Pool, last.args.ids, height, FALSE) IN
    /\ last.op = "AddBatch"
    /\ Leave(r.p)
    /\ last' = [ op |-> "RemoveBatch",
                 args |-> [ids |-> last.args.ids, height |-> height,
                           more |-> FALSE, reorg |-> TRUE],
                 res |-> [err |-> r.err],
                 preQueue |-> last.preQueue, preMap |-> last.preMap,
                 preCache |-> last.preCache ]
    /\ addLog' = [ NoLog EXCEPT !.revalidated = TRUE ]
    /\ UNCHANGED <<hasherVars, concVars, plotVars, indexerVars>>

CallGet(limit) ==
    /\ Idle
    /\ Leave(Pool)
    /\ last' = Call("Get", [limit |-> limit], [txs |-> Get(Pool, limit)])
    /\ UNCHANGED <<addLog, hasherVars, concVars, plotVars, indexerVars>>

CallExists(id) ==
    /\ Idle
    /\ Leave(Pool)
    /\ last' = Call("Exists", [id |-> id], [ok |-> Exists(Pool, id)])
    /\ UNCHANGED <<addLog, hasherVars, concVars, plotVars, indexerVars>>

CallExistsSigned(id, signature) ==
    /\ Idle
    /\ Leave(Pool)
    /\ last' = Call("ExistsSigned", [id |-> id, signature |-> signature],
                    [ok |-> ExistsSigned(Pool, id, signature)])
    /\ UNCHANGED <<addLog, hasherVars, concVars, plotVars, indexerVars>>

CallLen ==
    /\ Idle
    /\ Leave(Pool)
    /\ last' = Call("Len", <<>>, [n |-> QueueLen(Pool)])
    /\ UNCHANGED <<addLog, hasherVars, concVars, plotVars, indexerVars>>

\* the caller is done with the results
Return ==
    /\ ~Idle
    /\ last' = NoCall
    /\ UNCHANGED <<txQueue, txMap, imbalanceCache, addLog, hasherVars, concVars, plotVars, indexerVars>>

InitPool ==
    /\ HasherIdle
    /\ txQueue = <<>>
    /\ txMap = EmptyMap
    /\ imbalanceCache = EmptyMap
    /\ last = NoCall
    /\ addLog = [ valid |-> TRUE, txs |-> <<>>, revalidated |-> FALSE ]
    /\ ConcIdle
    /\ PlotIdle
    /\ IndexerIdle

NextPool ==
    \/ \E tx \in Interactions : CallAdd(tx)
    \/ \E txs \in Batches, height \in Heights : CallAddBatch(txs, height)
    \/ \E ids \in IdBatches, height \in Heights, more \in BOOLEAN :
          CallRemoveBatch(ids, height, more)
    \/ \E height \in Heights : CallReorgRemoveBatch(height)
    \/ \E limit \in Limits : CallGet(limit)
    \/ \E id \in InteractionIDs : CallExists(id)
    \/ \E id \in InteractionIDs, signature \in Signatures :
          CallExistsSigned(id, signature)
    \/ CallLen
    \/ Return

SpecPool == InitPool /\ [][NextPool]_vars

--------------------------------------------------------------------------
(* What the pool's calls are expected to do, stated on sequences alone.    *)

Range(f) == { f[x] : x \in DOMAIN f }

Listed(tx, ids) == InteractionID(tx) \in Range(ids)

\* the queue without the interactions whose ids are listed
Without(queue, ids) == SelectSeq(queue, LAMBDA tx : ~Listed(tx, ids))

ValidAt(tx, height) ==
    /\ checkInteractionSeries(tx, height)
    /\ IsMature(tx, height)
    /\ ~IsExpired(tx, height)

\* the interactions of the queue that are still valid for the plot after
\* height, each judged against the balances left by the valid ones before it
RECURSIVE StillValidFrom(_, _, _)
StillValidFrom(queue, cache, height) ==
    IF queue = <<>> THEN <<>>
    ELSE LET tx == Head(queue)
             a  == Apply(cache, tx)
         IN  IF ValidAt(tx, height + 1) /\ a.ok
             THEN <<tx>> \o StillValidFrom(Tail(queue), a.cache, height)
             ELSE StillValidFrom(Tail(queue), cache, height)

StillValid(queue, height) == StillValidFrom(queue, EmptyMap, height)

\* the overlay after queue[1..i] has been visited from an empty overlay
RECURSIVE CacheAfter(_, _, _)
CacheAfter(queue, i, height) ==
    IF i = 0 THEN EmptyMap
    ELSE LET c == CacheAfter(queue, i - 1, height)
             a == Apply(c, queue[i])
         IN  IF ValidAt(queue[i], height + 1) /\ a.ok THEN a.cache ELSE c

\* queue[i] is not removed by a revalidation of queue at height
Kept(queue, i, height) ==
    /\ checkInteractionSeries(queue[i], height + 1)
    /\ IsMature(queue[i], height + 1)
    /\ ~IsExpired(queue[i], height + 1)
    /\ Apply(CacheAfter(queue, i - 1, height), queue[i]).ok

\* the overlay built by applying every interaction of the queue in order
RECURSIVE Applied(_, _)
Applied(queue, i) ==
    IF i = 0 THEN EmptyMap ELSE Apply(Applied(queue, i - 1), queue[i]).cache

Min(a, b) == IF a < b THEN a ELSE b

ReorgDone == last.op = "RemoveBatch" /\ last.args.reorg
Removed == last.op = "RemoveBatch" /\ ~last.args.reorg
Added == last.op = "Add"

--------------------------------------------------------------------------
(* The claims about the pool.                                              *)

AddDuplicate ==
    (Added /\ last.args.id \in DOMAIN last.preMap) =>
        /\ last.res.ok = FALSE
        /\ last.res.err = "nil"
        /\ txQueue = last.preQueue
        /\ txMap = last.preMap
        /\ imbalanceCache = last.preCache

\* C6 witness: the id is queued under another signature than the one added,
\* and the sender could afford the interaction again
AddDuplicateWitness ==
    /\ Added
    /\ last.args.id \in DOMAIN last.preMap
    /\ last.args.tx \notin Range(last.preQueue)
    /\ Lookup(last.preCache, last.args.tx.From) >= last.args.tx.Amount

AddAppends ==
    /\ (Added /\ last.res.ok) =>
          /\ txQueue = Append(last.preQueue, last.args.tx)
          /\ QueueLen(Pool) = Len(last.preQueue) + 1
          /\ Exists(Pool, last.args.id)
          /\ last.args.id \notin DOMAIN last.preMap
    /\ addLog.valid => Get(Pool, 0) = addLog.txs

\* C8 witness: a third Add in a row has succeeded
AddAppendsWitness ==
    /\ Added /\ last.res.ok
    /\ addLog.valid
    /\ Len(addLog.txs) = 3

Readers == { "Get", "Exists", "ExistsSigned", "Len" }

\* C9: Get(limit) returns the first min(limit, Len) interactions in queue
\* order for limit > 0 and the whole queue for limit 0; Get, Exists,
\* ExistsSigned and Len leave the pool as it was.
GetPrefix ==
    /\ last.op = "Get" =>
          last.res.txs =
              SubSeq(txQueue, 1,
                     IF last.args.limit = 0 THEN Len(txQueue)
                     ELSE Min(last.args.limit, Len(txQueue)))
    /\ last.op \in Readers =>
          /\ txQueue = last.preQueue
          /\ txMap = last.preMap
          /\ imbalanceCache = last.preCache

\* C9 witness: a Get that cut the queue short
GetPrefixWitness ==
    /\ last.op = "Get"
    /\ last.args.limit >= 1
    /\ Len(txQueue) > last.args.limit
    /\ Len(last.res.txs) = last.args.limit

--------------------------------------------------------------------------
(* The pool under concurrent callers.  A caller takes the lock, runs the   *)
(* body of its call one loop iteration at a time and releases the lock.    *)

NumProcs == 2

MaxConcBatch == 2

Procs == 1..NumProcs

ConcInteractions == { T1, T2, T3 }

ConcBatches ==
    { txs \in SeqsUpTo(ConcInteractions, MaxConcBatch) :
        \A i, j \in 1..Len(txs) :
            InteractionID(txs[i]) = InteractionID(txs[j]) => i = j }

ConcHeights == { 0, 2 }

ConcLimits == { 0, 1 }

Mutators == { "Add", "AddBatch", "RemoveBatch" }

\* a caller outside of any call
Resting ==
    [ pc |-> "idle", op |-> "none", args |-> <<>>, i |-> 0, tmp |-> <<>>,
      res |-> <<>> ]

\* a caller that has just taken the lock
Entered(pc, op, args, i) ==
    [ pc |-> pc, op |-> op, args |-> args, i |-> i, tmp |-> <<>>, res |-> <<>> ]

\* the pool's three fields
Shared == [ q |-> txQueue, m |-> txMap, c |-> imbalanceCache ]

PoolAt(s) ==
    [ q |-> [i \in 1..Len(s.q) |-> [e |-> i, tx |-> s.q[i]]],
      m |-> s.m,
      c |-> s.c,
      n |-> Len(s.q) + 1 ]

Normal(p) ==
    [ q |-> [i \in 1..Len(p.q) |-> p.q[i].tx],
      m |-> [id \in DOMAIN p.m |-> Position(p.q, p.m[id])],
      c |-> p.c ]

\* Lock() returns as if readers did not hold the lock
LockFreeOfWriters(l) == l.writer = 0

\* Lock() returns when nobody holds the lock
LockFree(l) == l.writer = 0 /\ l.readers = {}

\* RLock() returns when no writer holds the lock
RLockFree(l) == l.writer = 0

\* t.lock.Lock()
Lock(p, entered) ==
    /\ procs[p].pc = "idle"
    /\ LockFree(lock)
    /\ lock' = [lock EXCEPT !.writer = p]
    /\ procs' = [procs EXCEPT ![p] = entered]
    /\ UNCHANGED <<txQueue, txMap, imbalanceCache, last, addLog, committed, hasherVars, plotVars, indexerVars>>

\* t.lock.RLock()
RLock(p, entered) ==
    /\ procs[p].pc = "idle"
    /\ RLockFree(lock)
    /\ lock' = [lock EXCEPT !.readers = @ \cup {p}]
    /\ procs' = [procs EXCEPT ![p] = entered]
    /\ UNCHANGED <<txQueue, txMap, imbalanceCache, last, addLog, committed, hasherVars, plotVars, indexerVars>>

\* a step of a body that writes the pool
Write(p, pool, proc) ==
    /\ Leave(pool)
    /\ procs' = [procs EXCEPT ![p] = proc]
    /\ UNCHANGED <<lock, last, addLog, committed, hasherVars, plotVars, indexerVars>>

\* a step of a body that only reads the pool
Read(p, proc) ==
    /\ procs' = [procs EXCEPT ![p] = proc]
    /\ UNCHANGED <<txQueue, txMap, imbalanceCache, lock, last, addLog, committed,
                   hasherVars, plotVars, indexerVars>>

LockAdd(p, tx) ==
    Lock(p, Entered("add", "Add", [id |-> InteractionID(tx), tx |-> tx], 0))

\* Add's body
StepAdd(p) ==
    LET me == procs[p]
        r  == Add(Pool, me.args.id, me.args.tx)
    IN  /\ me.pc = "add"
        /\ Write(p, r.p, [me EXCEPT !.pc = "unlock",
                                    !.res = [ok |-> r.ok, err |-> r.err]])

LockAddBatch(p, txs, height) ==
    Lock(p, Entered("addbatch", "AddBatch",
                    [ids |-> IdsOf(txs), txs |-> txs, height |-> height],
                    Len(txs)))

\* one iteration of AddBatch's loop, or its exit
StepAddBatch(p) ==
    LET me == procs[p] IN
    /\ me.pc = "addbatch"
    /\ IF me.i = 0
       THEN Read(p, [me EXCEPT !.pc = "unlock", !.res = [err |-> "nil"]])
       ELSE Write(p, AddBatchStep(Pool, me.args.ids[me.i], me.args.txs[me.i]),
                  [me EXCEPT !.i = me.i - 1])

LockRemoveBatch(p, ids, height, more) ==
    Lock(p, Entered("remove", "RemoveBatch",
                    [ids |-> ids, height |-> height, more |-> more], 1))

\* one iteration of RemoveBatch's loop, or its exit
StepRemoveBatch(p) ==
    LET me == procs[p] IN
    /\ me.pc = "remove"
    /\ IF me.i > Len(me.args.ids)
       THEN IF me.args.more
            THEN Read(p, [me EXCEPT !.pc = "unlock", !.res = [err |-> "nil"]])
            ELSE Read(p, [me EXCEPT !.pc = "reset"])
       ELSE Write(p, RemoveBatchStep(Pool, me.args.ids[me.i]),
                  [me EXCEPT !.i = me.i + 1])

\* reprocessQueue up to its loop: the cache is reset and the queue copied
StepReset(p) ==
    LET me == procs[p] IN
    /\ me.pc = "reset"
    /\ Write(p, [Pool EXCEPT !.c = Reset],
             [me EXCEPT !.pc = "reprocess", !.tmp = txQueue, !.i = 1])

\* one iteration of reprocessQueue's loop, or its exit
StepReprocess(p) ==
    LET me == procs[p] IN
    /\ me.pc = "reprocess"
    /\ IF me.i > Len(me.tmp)
       THEN Read(p, [me EXCEPT !.pc = "unlock", !.res = [err |-> "nil"]])
       ELSE Write(p, ReprocessStep(Pool, me.tmp[me.i], me.args.height),
                  [me EXCEPT !.i = me.i + 1])

\* defer t.lock.Unlock()
Unlock(p) ==
    /\ procs[p].pc = "unlock"
    /\ lock' = [lock EXCEPT !.writer = 0]
    /\ committed' = Shared
    /\ procs' = [procs EXCEPT ![p] = Resting]
    /\ UNCHANGED <<txQueue, txMap, imbalanceCache, last, addLog, hasherVars, plotVars, indexerVars>>

RLockGet(p, limit) == RLock(p, Entered("alloc", "Get", [limit |-> limit], 0))

\* Get up to its loop: the result is made
StepAlloc(p) ==
    LET me == procs[p]
        size == IF me.args.limit = 0 \/ Len(txQueue) < me.args.limit
                THEN Len(txQueue) ELSE me.args.limit
    IN  /\ me.pc = "alloc"
        /\ Read(p, [me EXCEPT !.pc = IF Len(txQueue) = 0 THEN "runlock" ELSE "copy",
                              !.res = [txs |-> [k \in 1..size |-> nilTx]]])

\* one iteration of Get's loop
StepCopy(p) ==
    LET me == procs[p]
        i  == me.i + 1
    IN  /\ me.pc = "copy"
        /\ Read(p, [me EXCEPT
                      !.res = [txs |-> IF i \in DOMAIN me.res.txs /\ i \in DOMAIN txQueue
                                       THEN [me.res.txs EXCEPT ![i] = txQueue[i]]
                                       ELSE me.res.txs],
                      !.i = i,
                      !.pc = IF i = me.args.limit \/ i >= Len(txQueue)
                             THEN "runlock" ELSE "copy"])

RLockExists(p, id) == RLock(p, Entered("exists", "Exists", [id |-> id], 0))

StepExists(p) ==
    LET me == procs[p] IN
    /\ me.pc = "exists"
    /\ Read(p, [me EXCEPT !.pc = "runlock",
                          !.res = [ok |-> Exists(Pool, me.args.id)]])

RLockExistsSigned(p, id, signature) ==
    RLock(p, Entered("existssigned", "ExistsSigned",
                     [id |-> id, signature |-> signature], 0))

StepExistsSigned(p) ==
    LET me == procs[p] IN
    /\ me.pc = "existssigned"
    /\ Read(p, [me EXCEPT !.pc = "runlock",
                          !.res = [ok |-> ExistsSigned(Pool, me.args.id,
                                                       me.args.signature)]])

RLockLen(p) == RLock(p, Entered("len", "Len", <<>>, 0))

StepLen(p) ==
    LET me == procs[p] IN
    /\ me.pc = "len"
    /\ Read(p, [me EXCEPT !.pc = "runlock", !.res = [n |-> QueueLen(Pool)]])

\* defer t.lock.RUnlock()
RUnlock(p) ==
    /\ procs[p].pc = "runlock"
    /\ lock' = [lock EXCEPT !.readers = @ \ {p}]
    /\ procs' = [procs EXCEPT ![p] = Resting]
    /\ UNCHANGED <<txQueue, txMap, imbalanceCache, last, addLog, committed, hasherVars, plotVars, indexerVars>>

InitConc ==
    /\ HasherIdle
    /\ txQueue = <<>>
    /\ txMap = EmptyMap
    /\ imbalanceCache = EmptyMap
    /\ last = NoCall
    /\ addLog = NoLog
    /\ lock = [ writer |-> 0, readers |-> {} ]
    /\ procs = [p \in Procs |-> Resting]
    /\ committed = [ q |-> <<>>, m |-> EmptyMap, c |-> EmptyMap ]
    /\ PlotIdle
    /\ IndexerIdle

NextConc ==
    \E p \in Procs :
        \/ \E tx \in ConcInteractions : LockAdd(p, tx)
        \/ StepAdd(p)
        \/ \E txs \in ConcBatches, height \in ConcHeights : LockAddBatch(p, txs, height)
        \/ StepAddBatch(p)
        \/ \E txs \in ConcBatches, height \in ConcHeights, more \in BOOLEAN :
              LockRemoveBatch(p, IdsOf(txs), height, more)
        \/ StepRemoveBatch(p)
        \/ StepReset(p)
        \/ StepReprocess(p)
        \/ Unlock(p)
        \/ \E limit \in ConcLimits : RLockGet(p, limit)
        \/ StepAlloc(p)
        \/ StepCopy(p)
        \/ \E tx \in ConcInteractions : RLockExists(p, InteractionID(tx))
        \/ StepExists(p)
        \/ \E tx \in ConcInteractions :
              RLockExistsSigned(p, InteractionID(tx), tx.Signature)
        \/ StepExistsSigned(p)
        \/ RLockLen(p)
        \/ StepLen(p)
        \/ RUnlock(p)

SpecConc == InitConc /\ [][NextConc]_vars

\* the call made in one piece on the pool s: the pool it leaves and its results
Atomic(op, args, s) ==
    CASE op = "Add" ->
           LET r == Add(PoolAt(s), args.id, args.tx)
           IN  [ s |-> Normal(r.p), res |-> [ok |-> r.ok, err |-> r.err] ]
      [] op = "AddBatch" ->
           LET r == AddBatch(PoolAt(s), args.ids, args.txs, args.height)
           IN  [ s |-> Normal(r.p), res |-> [err |-> r.err] ]
      [] op = "RemoveBatch" ->
           LET r == RemoveBatch(PoolAt(s), args.ids, args.height, args.more)
           IN  [ s |-> Normal(r.p), res |-> [err |-> r.err] ]
      [] op = "Get" ->
           [ s |-> s, res |-> [txs |-> Get(PoolAt(s), args.limit)] ]
      [] op = "Exists" ->
           [ s |-> s, res |-> [ok |-> Exists(PoolAt(s), args.id)] ]
      [] op = "ExistsSigned" ->
           [ s |-> s, res |-> [ok |-> ExistsSigned(PoolAt(s), args.id, args.signature)] ]
      [] op = "Len" ->
           [ s |-> s, res |-> [n |-> QueueLen(PoolAt(s))] ]

InCall(p) == procs[p].pc # "idle"

\* a mutator in a call is the writer, alone; a reader in a call holds the
\* shared lock and no writer does
LockHeld ==
    \A p \in Procs :
        InCall(p) =>
            IF procs[p].op \in Mutators
            THEN /\ lock = [ writer |-> p, readers |-> {} ]
                 /\ \A o \in Procs \ {p} : ~InCall(o)
            ELSE /\ p \in lock.readers
                 /\ lock.writer = 0

\* a reader in a call finds the pool as the last mutator to return left it
ReadersSeeWholeCalls ==
    \A p \in Procs :
        (InCall(p) /\ procs[p].op \in Readers) => Shared = committed

\* a call that returns has done to the pool left by the calls that returned
\* before it, and reports, what the call made in one piece does
ReturnsAsInOnePiece ==
    \A p \in Procs :
        (InCall(p) /\ ~InCall(p)') =>
            LET a == Atomic(procs[p].op, procs[p].args, committed)
            IN  /\ procs[p].res = a.res
                /\ Shared' = a.s
                /\ committed' = a.s

\* C10: every call takes effect atomically: mutators hold the exclusive lock
\* for their whole body, readers the shared lock, no reader sees a batch
\* partly added or removed or a queue in revalidation, and every call returns
\* what it returns when the calls are made one after another in the order in
\* which they release the lock.
CallsAreAtomic ==
    /\ [](LockHeld /\ ReadersSeeWholeCalls)
    /\ [][ReturnsAsInOnePiece]_vars

\* C10 witness: RemoveBatch is in reprocessQueue, has dropped an interaction
\* from the queue and has more to look at, and another caller is outside
CallsAreAtomicWitness ==
    \E p \in Procs :
        /\ procs[p].pc = "reprocess"
        /\ procs[p].i <= Len(procs[p].tmp)
        /\ Len(txQueue) < Len(procs[p].tmp)
        /\ Len(procs[p].args.ids) >= 1
        /\ Len(txQueue) >= 1
        /\ txQueue # committed.q
        /\ \E o \in Procs \ {p} : ~InCall(o)

--------------------------------------------------------------------------
(* Plot work.  A PlotID is read as an unsigned integer (GetBigInt); the     *)
(* model scales the 256 bits of the id down to WorkBits.                   *)

\* the width of a PlotID in bits, scaled down from 256
WorkBits == 4

RECURSIVE Pow2(_)
Pow2(n) == IF n = 0 THEN 1 ELSE 2 * Pow2(n - 1)

\* the values of a PlotID
PlotIDs == 0..(Pow2(WorkBits) - 1)

\* computePlotWork as it would be without the early return
computePlotWorkNoGuard(target) == Pow2(WorkBits) \div (target + 1)

\* computePlotWork as it would be if it divided by the target
computePlotWorkByTarget(target) ==
    IF target <= 0 THEN 0 ELSE Pow2(WorkBits) \div target

\* Compute plot work given its target
computePlotWork(target) ==
    IF target <= 0 THEN 0
    ELSE \* plot work = 2**256 / (target+1)
         Pow2(WorkBits) \div (target + 1)

\* SetBigInt as it would be if it kept the low bytes
SetBigIntWraps(i) == [ panic |-> FALSE, id |-> i % Pow2(WorkBits) ]

\* PlotID.SetBigInt: [panic, id]
SetBigInt(i) ==
    IF i >= Pow2(WorkBits)
    THEN [ panic |-> TRUE, id |-> 0 ]
    ELSE [ panic |-> FALSE, id |-> i ]

\* Compute cumulative thread work given a plot's target and the previous
\* thread work
computeThreadWork(target, threadWork) ==
    SetBigInt(threadWork + computePlotWork(target))

--------------------------------------------------------------------------
(* Plots.  The state of a SHA3-256 hasher is the sequence of the ids       *)
(* written to it.                                                          *)

\* the hard cap interaction limit, scaled down
MAX_INTERACTIONS_PER_PLOT == 3

\* most interactions a plot is followed to
MaxPlotLen == 4

\* sha3.New256()
New256 == <<>>

\* hasher.HashWrite(id[:])
HashWrite(h, id) == Append(h, id)

\* hasher.HashSum(nil): the state is left as it is
HashSum(h) == Sha3(h)

\* Add the plotroot to the hash list root
addPlotrootToHashListRoot(h, plotroot) ==
    LET rootHashWithoutPlotroot == HashSum(h)
        id == InteractionID(plotroot)
        rootHash == HashWrite(HashWrite(New256, id), rootHashWithoutPlotroot)
    IN  HashSum(rootHash)

\* computeHashListRoot's loop over interactions[1:], from index i (1-based)
RECURSIVE WriteIDs(_, _, _)
WriteIDs(h, interactions, i) ==
    IF i > Len(interactions) THEN h
    ELSE WriteIDs(HashWrite(h, InteractionID(interactions[i])), interactions, i + 1)

\* Compute a hash list root of all interaction hashes, on the hasher given:
\* [root, hasher]
computeHashListRoot(h, interactions) ==
    LET written == WriteIDs(h, interactions, 2)
    IN  [ root |-> addPlotrootToHashListRoot(written, interactions[1]),
          hasher |-> written ]

NoPlot ==
    [ state |-> "none", Header |-> <<>>, Interactions |-> <<>>, hasher |-> <<>>,
      err |-> "nil" ]

\* NewPlot creates and returns a new Plot to be scribed; now and nonce are
\* the system time and the random number it draws
NewPlot(previous, height, target, threadWork, interactions, now, nonce) ==
    IF Len(interactions) > MAX_INTERACTIONS_PER_PLOT
    THEN [NoPlot EXCEPT !.state = "rejected",
                        !.err = "Interaction list size exceeds limit per plot"]
    ELSE LET r == computeHashListRoot(New256, interactions)
             w == computeThreadWork(target, threadWork)
         IN  IF w.panic
             THEN [NoPlot EXCEPT !.state = "panicked", !.err = "Too much work"]
             ELSE [ state |-> "built",
                    Header |-> [ Previous         |-> previous,
                                 HashListRoot     |-> r.root,
                                 Time             |-> now,
                                 Target           |-> target,
                                 ThreadWork       |-> w.id,
                                 Nonce            |-> nonce,
                                 Height           |-> height,
                                 InteractionCount |-> Len(interactions) ],
                    Interactions |-> interactions,
                    hasher |-> r.hasher,
                    err |-> "nil" ]

\* AddInteraction as it would be if the plotroot were mixed in on the running
\* hasher itself
AddInteractionMixesInPlace(b, id, tx) ==
    LET written == HashWrite(b.hasher, id)
        mixed == HashWrite(HashWrite(written, InteractionID(b.Interactions[1])), HashSum(written))
    IN  [ b EXCEPT !.hasher = mixed,
                   !.Header.HashListRoot =
                       addPlotrootToHashListRoot(written, b.Interactions[1]),
                   !.Interactions = Append(@, tx),
                   !.Header.InteractionCount = @ + 1 ]

\* AddInteraction as it would be if the new interaction were put in front
\* of the list
AddInteractionInFront(b, id, tx) ==
    LET written == HashWrite(b.hasher, id)
    IN  [ b EXCEPT !.hasher = written,
                   !.Header.HashListRoot =
                       addPlotrootToHashListRoot(written, b.Interactions[1]),
                   !.Interactions = <<tx>> \o @,
                   !.Header.InteractionCount = @ + 1 ]

\* AddInteraction adds a new interaction to the plot
AddInteraction(b, id, tx) ==
    LET written == HashWrite(b.hasher, id)
    IN  [ b EXCEPT !.hasher = written,
                   !.Header.HashListRoot =
                       addPlotrootToHashListRoot(written, b.Interactions[1]),
                   !.Interactions = Append(@, tx),
                   !.Header.InteractionCount = @ + 1 ]

\* plotroots: the reward of the scriber
R0 == Interaction(0, baseKey, "A", 1, 0, 0, 1, <<>>)
R1 == Interaction(0, baseKey, "B", 1, 0, 0, 1, <<>>)

Plotroots == { R0, R1 }

PlotInteractions == { T1, T2, T3 }

\* interaction lists for a new plot, the plotroot first, up to one more than
\* the limit
PlotLists ==
    { <<r>> \o txs : r \in Plotroots,
                     txs \in SeqsUpTo(PlotInteractions, MAX_INTERACTIONS_PER_PLOT) }

PlotTargets == { 1, Pow2(WorkBits) - 1 }

PlotThreadWorks == { 0, Pow2(WorkBits) - 1 }

\* time.Now().Unix() and rand.Int63n(MAX_NUMBER)
PlotTimes == { 0, 1 }
PlotNonces == { 0, 1 }

CallNewPlot(target, threadWork, interactions, now, nonce) ==
    /\ plot.state = "none"
    /\ plot' = NewPlot(0, 1, target, threadWork, interactions, now, nonce)
    /\ UNCHANGED <<calc, hasherVars, poolVars, concVars,
                 indexerVars>>

\* the scriber adds an interaction from the queue to the plot it is scribing
CallAddInteraction(tx) ==
    /\ plot.state = "built"
    /\ Len(plot.Interactions) < MaxPlotLen
    /\ plot' = AddInteraction(plot, InteractionID(tx), tx)
    /\ UNCHANGED <<calc, hasherVars, poolVars, concVars,
                 indexerVars>>

\* the scriber turns to the next plot
DropPlot ==
    /\ plot.state # "none"
    /\ plot' = NoPlot
    /\ UNCHANGED <<calc, hasherVars, poolVars, concVars,
                 indexerVars>>

InitPlot ==
    /\ HasherIdle
    /\ PoolIdle
    /\ ConcIdle
    /\ IndexerIdle
    /\ plot = NoPlot
    /\ calc = <<>>

NextPlot ==
    \/ \E target \in PlotTargets, threadWork \in PlotThreadWorks,
          interactions \in PlotLists, now \in PlotTimes, nonce \in PlotNonces :
          CallNewPlot(target, threadWork, interactions, now, nonce)
    \/ \E tx \in PlotInteractions : CallAddInteraction(tx)
    \/ DropPlot

SpecPlot == InitPlot /\ [][NextPlot]_vars

\* the batch computation H(id(L[0]) || H(id(L[1]) || ... || id(L[k])))
BatchRoot(L) == Sha3(<<InteractionID(L[1]), Sha3(IdsOf(Tail(L)))>>)

\* C11: after NewPlot and after every AddInteraction the hash_list_root is the
\* batch computation over the interactions present so far, H(id(plotroot) ||
\* H(empty)) for a plot of the plotroot alone, and the running hasher holds
\* the ids of the interactions after the plotroot.
HashListRootIncremental ==
    plot.state = "built" =>
        /\ plot.Header.HashListRoot = BatchRoot(plot.Interactions)
        /\ Len(plot.Interactions) = 1 =>
              plot.Header.HashListRoot =
                  Sha3(<<InteractionID(plot.Interactions[1]), Sha3(<<>>)>>)
        /\ plot.hasher = IdsOf(Tail(plot.Interactions))
        /\ plot.Header.InteractionCount = Len(plot.Interactions)

\* C11 witness: a plot that grew beyond what NewPlot accepts, by two
\* AddInteraction calls or more, the same interaction added twice
HashListRootWitness ==
    /\ plot.state = "built"
    /\ Len(plot.Interactions) = MaxPlotLen
    /\ plot.Interactions[MaxPlotLen] = plot.Interactions[MaxPlotLen - 1]
    /\ plot.Interactions[2] # plot.Interactions[MaxPlotLen]

\* C12: every plot made by NewPlot and grown by AddInteraction holds at most
\* MAX_INTERACTIONS_PER_PLOT interactions, and NewPlot returns an error and no
\* plot for a longer list.
PlotWithinLimit ==
    /\ plot.state = "built" => Len(plot.Interactions) <= MAX_INTERACTIONS_PER_PLOT
    /\ plot.state = "rejected" => plot.Interactions = <<>> /\ plot.err # "nil"

--------------------------------------------------------------------------
(* Plot work and thread work computed for targets and thread works of      *)
(* every value.                                                            *)

NoCalc == [ op |-> "none" ]

\* computePlotWork is called; the caller also holds the target and the work
\* of the call before
CallComputePlotWork(target) ==
    /\ calc' = [ op |-> "computePlotWork",
                 target |-> target,
                 work |-> computePlotWork(target),
                 hasPrev |-> calc.op = "computePlotWork",
                 prevTarget |-> IF calc.op = "computePlotWork" THEN calc.target ELSE 0,
                 prevWork |-> IF calc.op = "computePlotWork" THEN calc.work ELSE 0 ]
    /\ UNCHANGED <<plot, hasherVars, poolVars, concVars,
                 indexerVars>>

CallComputeThreadWork(target, threadWork) ==
    LET r == computeThreadWork(target, threadWork) IN
    /\ calc' = [ op |-> "computeThreadWork",
                 target |-> target,
                 threadWork |-> threadWork,
                 panic |-> r.panic,
                 id |-> r.id ]
    /\ UNCHANGED <<plot, hasherVars, poolVars, concVars,
                 indexerVars>>

InitWork ==
    /\ HasherIdle
    /\ PoolIdle
    /\ ConcIdle
    /\ IndexerIdle
    /\ plot = <<>>
    /\ calc = NoCalc

NextWork ==
    \/ \E target \in PlotIDs : CallComputePlotWork(target)
    \/ \E target, threadWork \in PlotIDs : CallComputeThreadWork(target, threadWork)

SpecWork == InitWork /\ [][NextWork]_vars

TwoWorks == calc.op = "computePlotWork" /\ calc.hasPrev

\* C13 as stated: plot_work(t1) >= plot_work(t2) if and only if t1 <= t2, for
\* all targets, with plot_work(0) = 0.
WorkMonotoneIff ==
    /\ TwoWorks => (calc.work >= calc.prevWork <=> calc.target <= calc.prevTarget)
    /\ (calc.op = "computePlotWork" /\ calc.target = 0) => calc.work = 0

\* C13 amended: for targets t1, t2 > 0, t1 <= t2 implies plot_work(t1) >=
\* plot_work(t2), and plot_work(t1) > plot_work(t2) implies t1 < t2;
\* plot_work(0) = 0.
WorkMonotone ==
    /\ (TwoWorks /\ calc.target > 0 /\ calc.prevTarget > 0) =>
          /\ calc.target <= calc.prevTarget => calc.work >= calc.prevWork
          /\ calc.work > calc.prevWork => calc.target < calc.prevTarget
    /\ (calc.op = "computePlotWork" /\ calc.target = 0) => calc.work = 0

\* C13 witness: two different targets above 0 of the same work
WorkMonotoneWitness ==
    /\ TwoWorks
    /\ calc.prevTarget > 0
    /\ calc.target > calc.prevTarget
    /\ calc.work = calc.prevWork

\* C14: computePlotWork(target) is floor(2^256 / (target + 1)) for target > 0,
\* which fits in the id's width, and 0 for target 0.
WorkIsFloor ==
    calc.op = "computePlotWork" =>
        IF calc.target = 0 THEN calc.work = 0
        ELSE /\ calc.work * (calc.target + 1) <= Pow2(WorkBits)
             /\ (calc.work + 1) * (calc.target + 1) > Pow2(WorkBits)
             /\ calc.work \in PlotIDs

\* C14 witness: a target that does not divide 2^256 evenly, and the largest
\* work
WorkIsFloorWitness ==
    /\ calc.op = "computePlotWork"
    /\ calc.target > 0
    /\ calc.work * (calc.target + 1) < Pow2(WorkBits)
    /\ calc.hasPrev /\ calc.prevTarget = 1 /\ 2 * calc.prevWork = Pow2(WorkBits)

\* C15: computeThreadWork(target, prev) is prev + plot_work(target) when the
\* sum fits in the id's width; otherwise SetBigInt panics and no id is
\* produced, so the thread work never wraps around to a smaller value.
ThreadWorkAddsOrPanics ==
    calc.op = "computeThreadWork" =>
        LET sum == calc.threadWork + computePlotWork(calc.target) IN
        /\ sum < Pow2(WorkBits) => (~calc.panic /\ calc.id = sum)
        /\ sum >= Pow2(WorkBits) => calc.panic
        /\ ~calc.panic => calc.id >= calc.threadWork

\* C15 witness: the sum is out of the id's width by the work of a target
\* above 0 added to a thread work that is not the largest
ThreadWorkWitness ==
    /\ calc.op = "computeThreadWork"
    /\ calc.panic
    /\ calc.target > 1
    /\ calc.threadWork < Pow2(WorkBits) - 1

--------------------------------------------------------------------------
(* Tip comparison.  Headers here differ in thread work and nonce; the id   *)
(* of a header, read as an unsigned integer, is an injective scrambling of *)
(* the two.                                                                *)

CompareWorks == { 1, 2 }

CompareNonces == { 0, 1, 2 }

CompareWhens == { 0, 1 }

CompareHeaders ==
    { [ Previous |-> 0, HashListRoot |-> 0, Time |-> 0, Target |-> 1,
        ThreadWork |-> w, Nonce |-> n, Height |-> 1, InteractionCount |-> 1 ] :
      w \in CompareWorks, n \in CompareNonces }

\* header.ID() followed by GetBigInt(): different headers, different ids
HeaderIDInt(h) == (7 * (3 * h.ThreadWork + h.Nonce) + 5) % Pow2(WorkBits)

\* Compare as it would be if the greater id broke the tie
CompareGreaterID(h, theirHeader, thisWhen, theirWhen) ==
    LET thisWorkInt == h.ThreadWork
        theirWorkInt == theirHeader.ThreadWork
    IN  IF thisWorkInt > theirWorkInt THEN TRUE
        ELSE IF thisWorkInt < theirWorkInt THEN FALSE
        ELSE IF thisWhen < theirWhen THEN TRUE
        ELSE IF thisWhen > theirWhen THEN FALSE
        ELSE HeaderIDInt(h) > HeaderIDInt(theirHeader)

\* Compare as it would be if an equal id broke the tie too
CompareEqualID(h, theirHeader, thisWhen, theirWhen) ==
    LET thisWorkInt == h.ThreadWork
        theirWorkInt == theirHeader.ThreadWork
    IN  IF thisWorkInt > theirWorkInt THEN TRUE
        ELSE IF thisWorkInt < theirWorkInt THEN FALSE
        ELSE IF thisWhen < theirWhen THEN TRUE
        ELSE IF thisWhen > theirWhen THEN FALSE
        ELSE HeaderIDInt(h) <= HeaderIDInt(theirHeader)

\* Compare returns true if the header indicates it is a better thread than
\* theirHeader up to both points
Compare(h, theirHeader, thisWhen, theirWhen) ==
    LET thisWorkInt == h.ThreadWork
        theirWorkInt == theirHeader.ThreadWork
    IN  \* most work wins
        IF thisWorkInt > theirWorkInt THEN TRUE
        ELSE IF thisWorkInt < theirWorkInt THEN FALSE
        \* tie goes to the plot we stored first
        ELSE IF thisWhen < theirWhen THEN TRUE
        ELSE IF thisWhen > theirWhen THEN FALSE
        \* if we still need to break a tie go by the lesser id
        ELSE HeaderIDInt(h) < HeaderIDInt(theirHeader)

\* stored headers: a header and when it was stored
Stored == [ h : CompareHeaders, when : CompareWhens ]

Better(x, y) == Compare(x.h, y.h, x.when, y.when)

\* three stored headers are compared with each other and with themselves
CallCompare(a, b, c) ==
    /\ calc.op = "none"
    /\ calc' = [ op |-> "Compare", a |-> a, b |-> b, c |-> c,
                 aa |-> Better(a, a), ab |-> Better(a, b), ba |-> Better(b, a),
                 bc |-> Better(b, c), ac |-> Better(a, c) ]
    /\ UNCHANGED <<plot, hasherVars, poolVars, concVars,
                 indexerVars>>

InitCompare ==
    /\ HasherIdle
    /\ PoolIdle
    /\ ConcIdle
    /\ IndexerIdle
    /\ plot = <<>>
    /\ calc = NoCalc

NextCompare == \E a, b, c \in Stored : CallCompare(a, b, c)

SpecCompare == InitCompare /\ [][NextCompare]_vars

Compared == calc.op = "Compare"

\* work, stored time and id of a stored header
Key(x) == <<x.h.ThreadWork, x.when, HeaderIDInt(x.h)>>

\* C16: Compare is true exactly when this header has more thread work, or the
\* same and an earlier stored time, or the same of both and a smaller id.
CompareCriteria ==
    Compared =>
        LET ka == Key(calc.a)
            kb == Key(calc.b)
        IN  calc.ab <=> \/ ka[1] > kb[1]
                        \/ ka[1] = kb[1] /\ ka[2] < kb[2]
                        \/ ka[1] = kb[1] /\ ka[2] = kb[2] /\ ka[3] < kb[3]

\* C16 witness: work and stored time tie and the smaller id, of the header of
\* the greater nonce, wins
CompareCriteriaWitness ==
    /\ Compared
    /\ calc.ab
    /\ calc.a.h.ThreadWork = calc.b.h.ThreadWork
    /\ calc.a.when = calc.b.when
    /\ calc.a.h.Nonce > calc.b.h.Nonce

\* C17: Compare is a strict total order modulo equality of (work, stored
\* time, id): irreflexive, asymmetric, transitive, and of two stored headers
\* that differ in one of the three exactly one is better.
CompareStrictTotal ==
    Compared =>
        /\ ~calc.aa
        /\ calc.ab => ~calc.ba
        /\ (calc.ab /\ calc.bc) => calc.ac
        /\ Key(calc.a) # Key(calc.b) => (calc.ab \/ calc.ba)

\* C17 witness: a is better than b by work, b better than c by id, and a
\* better than c
CompareStrictTotalWitness ==
    /\ Compared
    /\ calc.ab /\ calc.bc /\ calc.ac
    /\ calc.a.h.ThreadWork > calc.b.h.ThreadWork
    /\ calc.b.h.ThreadWork = calc.c.h.ThreadWork
    /\ calc.b.when = calc.c.when

--------------------------------------------------------------------------
(* New interactions and their series.                                      *)

\* the greatest height an interaction is made at
MaxSeriesHeight == 2300

SeriesHeights == 0..MaxSeriesHeight

\* NewInteraction returns a new unsigned interaction; now and nonce are the
\* system time and the random number it draws
NewInteraction(from, to, matures, expires, height, memo, now, nonce) ==
    [ Time |-> now, Nonce |-> nonce, From |-> from, To |-> to, Memo |-> memo,
      Amount |-> 0, Matures |-> matures, Expires |-> expires,
      Series |-> computeInteractionSeries(baseKey = from, height),
      Signature |-> <<>> ]

CallNewInteraction(from, height, now, nonce) ==
    /\ calc.op = "none"
    /\ calc' = [ op |-> "NewInteraction", height |-> height,
                 tx |-> NewInteraction(from, "B", 0, 0, height, "", now, nonce) ]
    /\ UNCHANGED <<plot, hasherVars, poolVars, concVars,
                 indexerVars>>

InitSeries ==
    /\ HasherIdle
    /\ PoolIdle
    /\ ConcIdle
    /\ IndexerIdle
    /\ plot = <<>>
    /\ calc = NoCalc

NextSeries ==
    \E from \in { baseKey, "A" }, height \in SeriesHeights,
       now \in PlotTimes, nonce \in PlotNonces :
        CallNewInteraction(from, height, now, nonce)

SpecSeries == InitSeries /\ [][NextSeries]_vars

\* s is floor(n / PLOTS_UNTIL_NEW_SERIES) + 1, floor the mathematical floor
IsFloorPlusOne(s, n) ==
    /\ (s - 1) * PLOTS_UNTIL_NEW_SERIES <= n
    /\ n < s * PLOTS_UNTIL_NEW_SERIES

\* C18 as stated: for every height h >= 0 the series of a plotroot is
\* floor(h / PLOTS_UNTIL_NEW_SERIES) + 1 and the series of a non-plotroot is
\* floor((h - 100) / PLOTS_UNTIL_NEW_SERIES) + 1, floor the mathematical
\* floor also for h < 100.
SeriesIsFloor ==
    calc.op = "NewInteraction" =>
        IF IsPlotroot(calc.tx)
        THEN IsFloorPlusOne(calc.tx.Series, calc.height)
        ELSE IsFloorPlusOne(calc.tx.Series, calc.height - 100)

\* C18 amended: the series of a plotroot is floor(h / PLOTS_UNTIL_NEW_SERIES)
\* + 1; the series of a non-plotroot is floor((h - 100) /
\* PLOTS_UNTIL_NEW_SERIES) + 1 for h >= 100 and 1 for h < 100, the quotient
\* of the negative h - 100 being truncated toward zero.
SeriesTruncates ==
    calc.op = "NewInteraction" =>
        IF IsPlotroot(calc.tx)
        THEN IsFloorPlusOne(calc.tx.Series, calc.height)
        ELSE IF calc.height >= 100
             THEN IsFloorPlusOne(calc.tx.Series, calc.height - 100)
             ELSE calc.tx.Series = 1

\* C18 witness: a non-plotroot made below height 100
SeriesTruncatesWitness ==
    /\ calc.op = "NewInteraction"
    /\ ~IsPlotroot(calc.tx)
    /\ calc.height < 100
    /\ calc.tx.Series = 1

--------------------------------------------------------------------------
(* Maturity and expiry, in the pool's revalidation.                        *)

Revalidated == last.op = "RemoveBatch" /\ ~last.args.more

--------------------------------------------------------------------------
(* Interactions are signed, have their signature replaced, and are         *)
(* identified and verified.                                                *)

PrivateKeys == { "kA", "kB" }

\* the public key of a private key
PublicKeyOf(privKey) == IF privKey = "kA" THEN "A" ELSE "B"

\* ed25519.Sign
Ed25519Sign(privKey, message) == <<"ed25519", privKey, message>>

\* ed25519.Verify
Ed25519Verify(pubKey, message, sig) ==
    \E k \in PrivateKeys : PublicKeyOf(k) = pubKey /\ sig = Ed25519Sign(k, message)

\* Sign is called to sign an interaction
Sign(tx, privKey) ==
    LET id == InteractionID(tx)
    IN  [tx EXCEPT !.Signature = Ed25519Sign(privKey, id)]

\* Verify is called to verify only that the interaction is properly signed
Verify(tx) == Ed25519Verify(tx.From, InteractionID(tx), tx.Signature)

\* interactions as NewInteraction returns them, unsigned
Unsigned == { [tx EXCEPT !.Signature = <<>>] : tx \in Interactions \cup Plotroots }

\* signatures put in the place of the interaction's own
OtherSignatures == { <<>>, <<1>>, <<2>> }

\* what the caller holds: the interaction, its id when it was made, and the
\* latest call with the interaction as it was before and the result
Held(op, tx, id0, pre, res) ==
    [ op |-> op, tx |-> tx, id0 |-> id0, pre |-> pre, res |-> res ]

MakeInteraction(tx) ==
    /\ calc.op = "none"
    /\ calc' = Held("NewInteraction", tx, InteractionID(tx), tx, <<>>)
    /\ UNCHANGED <<plot, hasherVars, poolVars, concVars,
                 indexerVars>>

IsHeld == calc.op \in { "NewInteraction", "ID", "Sign", "Replace", "Verify" }

\* tx.ID(): the receiver is a copy
CallID ==
    /\ IsHeld
    /\ calc' = Held("ID", calc.tx, calc.id0, calc.tx, InteractionID(calc.tx))
    /\ UNCHANGED <<plot, hasherVars, poolVars, concVars,
                 indexerVars>>

CallSign(privKey) ==
    /\ IsHeld
    /\ calc' = Held("Sign", Sign(calc.tx, privKey), calc.id0, calc.tx, "nil")
    /\ UNCHANGED <<plot, hasherVars, poolVars, concVars,
                 indexerVars>>

\* the signature is replaced by other bytes
ReplaceSignature(sig) ==
    /\ IsHeld
    /\ calc' = Held("Replace", [calc.tx EXCEPT !.Signature = sig], calc.id0,
                    calc.tx, "nil")
    /\ UNCHANGED <<plot, hasherVars, poolVars, concVars,
                 indexerVars>>

\* tx.Verify(): the receiver is a copy
CallVerify ==
    /\ IsHeld
    /\ calc' = Held("Verify", calc.tx, calc.id0, calc.tx, Verify(calc.tx))
    /\ UNCHANGED <<plot, hasherVars, poolVars, concVars,
                 indexerVars>>

InitSign ==
    /\ HasherIdle
    /\ PoolIdle
    /\ ConcIdle
    /\ IndexerIdle
    /\ plot = <<>>
    /\ calc = NoCalc

NextSign ==
    \/ \E tx \in Unsigned : MakeInteraction(tx)
    \/ CallID
    \/ \E privKey \in PrivateKeys : CallSign(privKey)
    \/ \E sig \in OtherSignatures : ReplaceSignature(sig)
    \/ CallVerify

SpecSign == InitSign /\ [][NextSign]_vars

\* C20: ID() is the same before Sign, after Sign and after the signature is
\* replaced by any other bytes, and ID() and Verify leave the signature and
\* all other fields of the interaction as they were.
IdIgnoresSignature ==
    IsHeld =>
        /\ InteractionID(calc.tx) = calc.id0
        /\ calc.op = "ID" => calc.res = calc.id0
        /\ calc.op \in { "ID", "Verify" } => calc.tx = calc.pre
        /\ \A f \in (DOMAIN calc.tx) \ { "Signature" } : calc.tx[f] = calc.pre[f]

\* C20 witness: ID() of an interaction whose signature was replaced by other
\* bytes
IdIgnoresSignatureWitness ==
    /\ calc.op = "ID"
    /\ calc.tx.Signature \in OtherSignatures \ { <<>> }
    /\ ~IsPlotroot(calc.tx)
    /\ calc.res = calc.id0

---------------------------------------------------------------------------
(* The interaction graph of the indexer (indexer.go).  A weight is a small *)
(* whole number held in a float64 and is modelled by an integer.  A        *)
(* ranking is a float64 in [0, 1] and is modelled in fixed point:          *)
(* RankScale stands for 1.0, and a quotient of two weights is kept as      *)
(* [num, den] and rounded when it multiplies a ranking.                    *)

MaxLinks == 3        \* Link calls made on one graph

RankScale == 100000000

\* float64 leaves its finite range: beyond RankMax a value is an infinity,
\* and an undefined result is NaN, which compares false with everything
RankMax == 4 * RankScale
PosInf == RankMax
NegInf == 0 - RankMax
NaN == RankMax + 1

\* In the operators below a bound variable ranging over a one-element set
\* stands for an operand, so that the operand is evaluated once.

IsFinite(x) == NegInf < x /\ x < PosInf

Clamp(x) ==
    CHOOSE r \in { IF a >= PosInf THEN PosInf ELSE IF a <= NegInf THEN NegInf ELSE a :
                   a \in {x} } : TRUE

FAdd(x, y) ==
    CHOOSE r \in { IF a = NaN \/ b = NaN THEN NaN
                   ELSE IF IsFinite(a) /\ IsFinite(b) THEN Clamp(a + b)
                   ELSE IF IsFinite(a) THEN b
                   ELSE IF IsFinite(b) THEN a
                   ELSE IF a = b THEN a ELSE NaN : a \in {x}, b \in {y} } : TRUE

FAbs(x) ==
    CHOOSE r \in { IF a = NaN THEN NaN ELSE IF a < 0 THEN 0 - a ELSE a : a \in {x} } : TRUE

FSub(x, y) ==
    CHOOSE r \in { IF b = NaN THEN NaN ELSE FAdd(a, 0 - b) : a \in {x}, b \in {y} } : TRUE

\* the product of a value and a quotient of two weights
FMul(x, q) ==
    CHOOSE r \in { IF a = NaN THEN NaN
                   ELSE IF IsFinite(a) THEN Clamp((a * w.num) \div w.den)
                   ELSE IF w.num = 0 THEN NaN
                   ELSE IF w.num > 0 THEN a ELSE 0 - a : a \in {x}, w \in {q} } : TRUE

FGreater(x, y) == \E a \in {x}, b \in {y} : a # NaN /\ b # NaN /\ a > b

\* the sum of f over S
SumOf(f, S) ==
    LET sum[T \in SUBSET S] ==
            IF T = {} THEN 0
            ELSE CHOOSE r \in { FAdd(f[k], sum[T \ {k}]) : k \in {CHOOSE x \in T : TRUE} } : TRUE
    IN  sum[S]

\* base64 of a public key: distinct keys give distinct strings
pubKeyToString(pk) == <<"base64", pk>>

NewGraph == [ index |-> EmptyMap, nodes |-> EmptyMap, edges |-> EmptyMap ]

\* LinkNode as it would be if a new index were the number of sources that
\* have an edge
LinkNodeCountsSources(g, label) ==
    IF label \in DOMAIN g.index THEN g
    ELSE LET index == Cardinality(DOMAIN g.edges)
         IN  [ g EXCEPT !.index = MapPut(@, label, index),
                        !.nodes = MapPut(@, index, [ label |-> label,
                                                     ranking |-> 0,
                                                     outbound |-> 0 ]) ]

\* the node of a label, created with the next index when the label is new
LinkNode(g, label) ==
    IF label \in DOMAIN g.index THEN g
    ELSE LET index == Cardinality(DOMAIN g.index)
         IN  [ g EXCEPT !.index = MapPut(@, label, index),
                        !.nodes = MapPut(@, index, [ label |-> label,
                                                     ranking |-> 0,
                                                     outbound |-> 0 ]) ]

LinkOverwritesEdge(g, source, target, weight) ==
    LET g2 == LinkNode(LinkNode(g, source), target)
        sIndex == g2.index[source]
        tIndex == g2.index[target]
        row == IF sIndex \in DOMAIN g2.edges THEN g2.edges[sIndex] ELSE EmptyMap
    IN  [ g2 EXCEPT !.nodes[sIndex].outbound = @ + weight,
                    !.edges = MapPut(@, sIndex, MapPut(row, tIndex, weight)) ]

Link(g, source, target, weight) ==
    LET g2 == LinkNode(LinkNode(g, source), target)
        sIndex == g2.index[source]
        tIndex == g2.index[target]
        row == IF sIndex \in DOMAIN g2.edges THEN g2.edges[sIndex] ELSE EmptyMap
        old == IF tIndex \in DOMAIN row THEN row[tIndex] ELSE 0
    IN  [ g2 EXCEPT !.nodes[sIndex].outbound = @ + weight,
                    !.edges = MapPut(@, sIndex, MapPut(row, tIndex, old + weight)) ]

\* the out-weights of every source whose outbound total is positive
NormalizedWeights(g) ==
    [ source \in { s \in DOMAIN g.edges : g.nodes[s].outbound > 0 } |->
        [ target \in DOMAIN g.edges[source] |->
            [ num |-> g.edges[source][target], den |-> g.nodes[source].outbound ] ] ]

\* Rank up to its loop: every ranking is 1/N and delta is 1.0
RankEnter(g, alpha, epsilon) ==
    LET inverse == [ num |-> 1, den |-> Cardinality(DOMAIN g.nodes) ]
    IN  [ graph |-> [ g EXCEPT !.nodes = [ k \in DOMAIN g.nodes |->
                                  [ g.nodes[k] EXCEPT !.ranking = FMul(RankScale, inverse) ] ] ],
          locals |-> [ delta |-> RankScale,
                       inverse |-> inverse,
                       normalizedWeights |-> NormalizedWeights(g),
                       alpha |-> alpha,
                       epsilon |-> epsilon ] ]

\* one pass of Rank's loop body
RankIterate(g, l) ==
    LET nodes == [ k \in DOMAIN g.nodes |-> g.nodes[k].ranking ]
        dangling == { k \in DOMAIN g.nodes : g.nodes[k].outbound = 0 }
        leak == FMul(SumOf(nodes, dangling), l.alpha)
        nw == l.normalizedWeights
        into(t) == [ s \in { x \in DOMAIN nw : t \in DOMAIN nw[x] } |->
                        FMul(FMul(nodes[s], l.alpha), nw[s][t]) ]
        restart == FMul(FMul(RankScale, [ num |-> l.alpha.den - l.alpha.num,
                                         den |-> l.alpha.den ]), l.inverse)
        ranking == [ k \in DOMAIN g.nodes |->
                        FAdd(SumOf(into(k), DOMAIN into(k)),
                             FAdd(restart, FMul(leak, l.inverse))) ]
        change == [ k \in DOMAIN g.nodes |-> FAbs(FSub(ranking[k], nodes[k])) ]
    IN  [ graph |-> [ g EXCEPT !.nodes = [ k \in DOMAIN g.nodes |->
                                  [ g.nodes[k] EXCEPT !.ranking = ranking[k] ] ] ],
          locals |-> [ l EXCEPT !.delta = SumOf(change, DOMAIN change) ] ]

\* rankings: the ranking looked up for each key, or of every node when no
\* key is given; a label absent from the index reads as index 0, and a
\* missing node 0 is a nil dereference
rankings(g, pubKeys) ==
    LET indexOf(key) == IF pubKeyToString(key) \in DOMAIN g.index
                        THEN g.index[pubKeyToString(key)] ELSE 0
    IN  IF Len(pubKeys) > 0
        THEN IF \E i \in 1..Len(pubKeys) : indexOf(pubKeys[i]) \notin DOMAIN g.nodes
             THEN [ panic |-> TRUE, rnks |-> EmptyMap ]
             ELSE [ panic |-> FALSE,
                    rnks |-> [ keyStr \in { pubKeyToString(pubKeys[i]) : i \in 1..Len(pubKeys) } |->
                                 g.nodes[indexOf(keyStr[2])].ranking ] ]
        ELSE [ panic |-> FALSE,
               rnks |-> [ keyStr \in DOMAIN g.index |-> g.nodes[g.index[keyStr]].ranking ] ]

\* the arguments rankGraph passes to Rank
RankAlpha == [ num |-> 1, den |-> 1 ]
RankEpsilon == RankScale \div 1000000

---------------------------------------------------------------------------
(* Calls on one graph: Link, Rank (pass by pass) and rankings.             *)

GraphKeys == {"A", "B", "C"}
Weights == {1, -1}
KeyLists == SeqsUpTo(GraphKeys, 2)
Labels == { pubKeyToString(k) : k \in GraphKeys }

NoLocals == <<>>

CallLink(source, target, weight) ==
    /\ rank.pc # "loop"
    /\ rank.links < MaxLinks
    /\ graph' = Link(graph, pubKeyToString(source), pubKeyToString(target), weight)
    /\ rank' = [ rank EXCEPT !.links = @ + 1 ]
    /\ calc' = [ op |-> "Link", g |-> graph, source |-> pubKeyToString(source),
                 target |-> pubKeyToString(target), weight |-> weight ]
    /\ UNCHANGED <<idx, env, plot, hasherVars, poolVars, concVars>>

\* Rank(1.0, 1e-6) is entered
CallRank ==
    /\ rank.pc # "loop"
    /\ LET r == RankEnter(graph, RankAlpha, RankEpsilon)
       IN  /\ graph' = r.graph
           /\ rank' = [ rank EXCEPT !.pc = "loop", !.locals = r.locals ]
    /\ calc' = [ op |-> "Rank" ]
    /\ UNCHANGED <<idx, env, plot, hasherVars, poolVars, concVars>>

\* for delta > epsilon: one more pass
LoopRank ==
    /\ rank.pc = "loop"
    /\ FGreater(rank.locals.delta, rank.locals.epsilon)
    /\ LET r == RankIterate(graph, rank.locals)
       IN  /\ graph' = r.graph
           /\ rank' = [ rank EXCEPT !.locals = r.locals ]
    /\ UNCHANGED <<idx, env, plotVars, hasherVars, poolVars, concVars>>

\* delta <= epsilon: Rank returns
ReturnRank ==
    /\ rank.pc = "loop"
    /\ ~FGreater(rank.locals.delta, rank.locals.epsilon)
    /\ rank' = [ rank EXCEPT !.pc = "returned", !.locals = NoLocals ]
    /\ UNCHANGED <<graph, idx, env, plotVars, hasherVars, poolVars, concVars>>

CallRankings(pubKeys) ==
    /\ rank.pc # "loop"
    /\ calc' = [ op |-> "rankings", g |-> graph, pubKeys |-> pubKeys,
                 result |-> rankings(graph, pubKeys) ]
    /\ UNCHANGED <<graph, rank, idx, env, plot, hasherVars, poolVars, concVars>>

InitGraph ==
    /\ HasherIdle
    /\ PoolIdle
    /\ ConcIdle
    /\ plot = <<>>
    /\ calc = NoCalc
    /\ graph = NewGraph
    /\ rank = [ pc |-> "none", locals |-> NoLocals, links |-> 0 ]
    /\ idx = <<>>
    /\ env = <<>>

NextGraph ==
    \/ \E source \in GraphKeys, target \in GraphKeys, weight \in Weights :
           CallLink(source, target, weight)
    \/ CallRank
    \/ LoopRank
    \/ ReturnRank
    \/ \E pubKeys \in KeyLists : CallRankings(pubKeys)

SpecGraph == InitGraph /\ [][NextGraph]_vars

\* what a graph holds for a label, zero when it holds nothing
HasNode(g, a) == a \in DOMAIN g.index

EdgeWeight(g, a, b) ==
    IF HasNode(g, a) /\ HasNode(g, b) /\ g.index[a] \in DOMAIN g.edges
       /\ g.index[b] \in DOMAIN g.edges[g.index[a]]
    THEN g.edges[g.index[a]][g.index[b]] ELSE 0

Outbound(g, a) == IF HasNode(g, a) THEN g.nodes[g.index[a]].outbound ELSE 0

RankingOf(g, a) == IF HasNode(g, a) THEN g.nodes[g.index[a]].ranking ELSE 0

\* C21: Link(src, tgt, w) creates the nodes of src and tgt when they are
\* new (one node when they are the same label), adds w to the edge
\* src -> tgt and to src's outbound total, whatever the sign of w and with
\* no clamping at zero, and leaves every other edge weight, every other
\* outbound total and every ranking as it was.
LinkEffect ==
    calc.op = "Link" =>
        LET g == calc.g
            s == calc.source
            t == calc.target
            w == calc.weight
        IN  /\ DOMAIN graph.index = DOMAIN g.index \cup {s, t}
            /\ Cardinality(DOMAIN graph.nodes)
                 = Cardinality(DOMAIN g.nodes) + Cardinality({s, t} \ DOMAIN g.index)
            /\ \A a \in DOMAIN graph.index :
                   /\ graph.index[a] \in DOMAIN graph.nodes
                   /\ graph.nodes[graph.index[a]].label = a
                   /\ a \in DOMAIN g.index => graph.index[a] = g.index[a]
            /\ \A a \in DOMAIN graph.index, b \in DOMAIN graph.index :
                   graph.index[a] = graph.index[b] => a = b
            /\ EdgeWeight(graph, s, t) = EdgeWeight(g, s, t) + w
            /\ Outbound(graph, s) = Outbound(g, s) + w
            /\ \A a \in Labels, b \in Labels :
                   <<a, b>> # <<s, t>> => EdgeWeight(graph, a, b) = EdgeWeight(g, a, b)
            /\ \A a \in Labels :
                   /\ a # s => Outbound(graph, a) = Outbound(g, a)
                   /\ RankingOf(graph, a) = RankingOf(g, a)

\* a Link of weight -1 that takes an outbound total below zero, on a graph
\* that has been ranked and holds another edge
LinkEffectWitness ==
    /\ calc.op = "Link"
    /\ calc.weight = -1
    /\ Outbound(graph, calc.source) < 0
    /\ \E a \in Labels : RankingOf(graph, a) > 0
    /\ \E a \in Labels, b \in Labels :
           <<a, b>> # <<calc.source, calc.target>> /\ EdgeWeight(graph, a, b) # 0

---------------------------------------------------------------------------
(* Rank's loop runs in the worker's goroutine, which the scheduler keeps   *)
(* running: a pass that can be made is made, and a return that is due      *)
(* happens.                                                                *)

NextRank ==
    \/ \E source \in GraphKeys, target \in GraphKeys, weight \in Weights :
           CallLink(source, target, weight)
    \/ CallRank
    \/ LoopRank
    \/ ReturnRank

SpecRank ==
    /\ InitGraph
    /\ [][NextRank]_vars
    /\ WF_vars(LoopRank)
    /\ WF_vars(ReturnRank)

\* C24: Rank(1.0, 1e-6) terminates on every finite graph built by Link
\* calls: a Rank that has been entered returns.
RankTerminates == (rank.pc = "loop") ~> (rank.pc = "returned")

\* the rankings of all nodes, added up
RankingSum(g) == SumOf([ k \in DOMAIN g.nodes |-> g.nodes[k].ranking ], DOMAIN g.nodes)

\* what the rounding of the passes may take from or add to a sum
RankTolerance == 100 * RankEpsilon

\* C25: after Rank on a non-empty graph built by Link calls the rankings
\* of all nodes sum to 1.
RankingsSumToOne ==
    rank.pc = "returned" /\ calc.op = "Rank" /\ DOMAIN graph.nodes # {} =>
        /\ IsFinite(RankingSum(graph))
        /\ FAbs(FSub(RankingSum(graph), RankScale)) <= RankTolerance

\* C26: rankings(keys) returns for every requested key the ranking of the
\* node labelled with that key, gives a key that Link has never seen no
\* other node's ranking, and with no key returns every node's ranking by
\* label.
RankingsByLabel ==
    calc.op = "rankings" =>
        LET g == calc.g
            rnks == calc.result.rnks
            requested == { pubKeyToString(calc.pubKeys[i]) : i \in 1..Len(calc.pubKeys) }
        IN  /\ ~calc.result.panic
            /\ \A keyStr \in requested :
                   IF HasNode(g, keyStr)
                   THEN keyStr \in DOMAIN rnks /\ rnks[keyStr] = RankingOf(g, keyStr)
                   ELSE keyStr \in DOMAIN rnks => rnks[keyStr] = 0
            /\ requested # {} => DOMAIN rnks \subseteq requested
            /\ requested = {} =>
                   rnks = [ keyStr \in DOMAIN g.index |-> RankingOf(g, keyStr) ]

---------------------------------------------------------------------------
(* The indexer's worker (indexer.go run), the processor that changes the   *)
(* tip and the caller of Shutdown.  The ledger's main chain holds one plot *)
(* per height; env.chain is the number of heights it holds.                *)

MaxChain == 3        \* plots on the main chain
MaxTips == 2         \* tip changes the processor makes

\* the representations of the plot at each height of the main chain
Representations(height) ==
    IF height = 0 THEN << [ From |-> "A", To |-> "B" ], [ From |-> "B", To |-> "A" ] >>
    ELSE IF height = 1 THEN << [ From |-> "C", To |-> "A" ] >>
    ELSE << [ From |-> "A", To |-> "A" ] >>

ChainPlot(height) ==
    [ Header |-> [ Height |-> height ], Representations |-> Representations(height) ]

ChainPlotID(height) == <<"plot", height>>

nil == <<>>

\* ledger.GetPlotIDForHeight on a main chain of the given length
GetPlotIDForHeight(chain, height) ==
    IF height < chain THEN ChainPlotID(height) ELSE nil

\* weightOf as it would be if a disconnected plot were linked like a
\* connected one
weightOfConnected(connect) == 1

\* the weight indexRepresentations links with
weightOf(connect) == IF connect THEN 1 ELSE -1

RECURSIVE LinkRepresentations(_, _, _)
LinkRepresentations(g, txs, weight) ==
    IF txs = <<>> THEN g
    ELSE LinkRepresentations(Link(g, pubKeyToString(Head(txs).From),
                                  pubKeyToString(Head(txs).To), weight),
                             Tail(txs), weight)

\* indexRepresentations: the indexer's fields and graph afterwards
indexRepresentations(ix, g, p, id, connect) ==
    [ idx |-> [ ix EXCEPT !.latestPlotID = id, !.latestHeight = p.Header.Height ],
      graph |-> LinkRepresentations(g, p.Representations, weightOf(connect)) ]

pollBreaksAlways(ibd) == TRUE

\* the poll leaves the wait when the download is no longer reported
pollBreaks(ibd) == ~ibd

walkStartAbove(h) == h.Height + 1

\* the height the initial walk starts at
walkStart(h) == h.Height

ranksAfterEvery(tip) == TRUE

\* the tip loop ranks after an event that ends its batch
ranksAfter(tip) == ~tip.More

Logged(e) == env' = [ env EXCEPT !.log = Append(@, e) ]

\* go idx.run()
Run ==
    /\ idx.pc = "new"
    /\ idx' = [ idx EXCEPT !.pc = "check" ]
    /\ env' = [ env EXCEPT !.wg = @ + 1 ]
    /\ UNCHANGED <<graph, rank, plotVars, hasherVars, poolVars, concVars>>

\* the first IsInitialPlotDownload
CheckDownload ==
    /\ idx.pc = "check"
    /\ idx' = [ idx EXCEPT !.ibd = env.download,
                           !.pc = IF env.download THEN "wait" ELSE "header" ]
    /\ UNCHANGED <<env, graph, rank, plotVars, hasherVars, poolVars, concVars>>

\* case <-ticker.C in the wait
PollDownload ==
    /\ idx.pc = "wait"
    /\ idx' = [ idx EXCEPT !.ibd = env.download, !.polled = TRUE,
                           !.pc = IF pollBreaks(env.download) THEN "header" ELSE "wait" ]
    /\ UNCHANGED <<env, graph, rank, plotVars, hasherVars, poolVars, concVars>>

\* a return of run(): the deferred UnregisterForTipChange, then wg.Done
Returned(e) ==
    [ e EXCEPT !.registered = FALSE,
               !.tipChangeChan = IF e.registered THEN nil ELSE @,
               !.wg = @ - 1,
               !.log = IF e.registered THEN Append(@, [ e |-> "unregister" ]) ELSE @ ]

\* case <-idx.shutdownChan in the wait
WaitShutdown ==
    /\ idx.pc = "wait"
    /\ env.shutdown
    /\ idx' = [ idx EXCEPT !.pc = "done" ]
    /\ env' = Returned(env)
    /\ UNCHANGED <<graph, rank, plotVars, hasherVars, poolVars, concVars>>

\* GetPlotHeader and GetBranchType of the starting plot
GetHeader ==
    /\ idx.pc = "header"
    /\ IF idx.latestPlotID \in { ChainPlotID(h) : h \in 0..(env.chain - 1) }
       THEN /\ idx' = [ idx EXCEPT !.pc = "walk",
                                   !.height = walkStart(ChainPlot(idx.latestPlotID[2]).Header) ]
            /\ UNCHANGED env
       ELSE /\ idx' = [ idx EXCEPT !.pc = "done" ]
            /\ env' = Returned(env)
    /\ UNCHANGED <<graph, rank, plotVars, hasherVars, poolVars, concVars>>

\* one pass of the initial walk; past the last height, rankGraph is entered
WalkStep ==
    /\ idx.pc = "walk"
    /\ LET nextID == GetPlotIDForHeight(env.chain, idx.height)
       IN  IF nextID = nil
           THEN LET r == RankEnter(graph, RankAlpha, RankEpsilon)
                IN  /\ idx' = [ idx EXCEPT !.height = @ - 1, !.pc = "ranking" ]
                    /\ graph' = r.graph
                    /\ rank' = [ rank EXCEPT !.pc = "loop", !.locals = r.locals ]
                    /\ Logged([ e |-> "rank", height |-> idx.height, chain |-> env.chain ])
           ELSE LET r == indexRepresentations(idx, graph, ChainPlot(idx.height), nextID, TRUE)
                IN  /\ idx' = [ r.idx EXCEPT !.height = @ + 1 ]
                    /\ graph' = r.graph
                    /\ rank' = rank
                    /\ Logged([ e |-> "index", phase |-> "walk", id |-> nextID,
                                connect |-> TRUE, more |-> TRUE ])
    /\ UNCHANGED <<plotVars, hasherVars, poolVars, concVars>>

\* RegisterForTipChange once the first rankGraph has returned
Register ==
    /\ idx.pc = "ranking"
    /\ rank.pc = "returned"
    /\ idx' = [ idx EXCEPT !.pc = "tip" ]
    /\ env' = [ env EXCEPT !.registered = TRUE, !.tipChangeChan = <<>>,
                           !.log = Append(@, [ e |-> "register" ]) ]
    /\ UNCHANGED <<graph, rank, plotVars, hasherVars, poolVars, concVars>>

\* the worker is at the select of the tip loop
AtTipSelect ==
    \/ idx.pc = "tip"
    \/ idx.pc = "tipranking" /\ rank.pc = "returned"

\* case tip := <-tipChangeChan
ReceiveTip ==
    /\ AtTipSelect
    /\ env.tipChangeChan # <<>>
    /\ LET tip == Head(env.tipChangeChan)
           r == indexRepresentations(idx, graph, tip.Plot, tip.PlotID, tip.Connect)
           entered == RankEnter(r.graph, RankAlpha, RankEpsilon)
       IN  /\ env' = [ env EXCEPT !.tipChangeChan = Tail(@),
                         !.log = Append(@, [ e |-> "index", phase |-> "tip", id |-> tip.PlotID,
                                             connect |-> tip.Connect, more |-> tip.More ])
                                 \o IF ranksAfter(tip)
                                    THEN << [ e |-> "rank", height |-> idx.height,
                                              chain |-> env.chain ] >>
                                    ELSE <<>> ]
           /\ IF ranksAfter(tip)
              THEN /\ idx' = [ r.idx EXCEPT !.pc = "tipranking" ]
                   /\ graph' = entered.graph
                   /\ rank' = [ rank EXCEPT !.pc = "loop", !.locals = entered.locals ]
              ELSE /\ idx' = [ r.idx EXCEPT !.pc = "tip" ]
                   /\ graph' = r.graph
                   /\ rank' = rank
    /\ UNCHANGED <<plotVars, hasherVars, poolVars, concVars>>

\* case <-idx.shutdownChan in the tip loop
TipShutdown ==
    /\ AtTipSelect
    /\ env.shutdown
    /\ idx' = [ idx EXCEPT !.pc = "done" ]
    /\ env' = Returned(env)
    /\ UNCHANGED <<graph, rank, plotVars, hasherVars, poolVars, concVars>>

\* Shutdown: close(idx.shutdownChan)
CallShutdown ==
    /\ idx.pc # "new"
    /\ env.caller = "none"
    /\ env' = [ env EXCEPT !.shutdown = TRUE, !.caller = "waiting" ]
    /\ UNCHANGED <<idx, graph, rank, plotVars, hasherVars, poolVars, concVars>>

\* Shutdown: idx.wg.Wait() returns
ReturnShutdown ==
    /\ env.caller = "waiting"
    /\ env.wg = 0
    /\ env' = [ env EXCEPT !.caller = "returned" ]
    /\ UNCHANGED <<idx, graph, rank, plotVars, hasherVars, poolVars, concVars>>

\* the ledger stops reporting the initial plot download
DownloadCompletes ==
    /\ env.download
    /\ env' = [ env EXCEPT !.download = FALSE ]
    /\ UNCHANGED <<idx, graph, rank, plotVars, hasherVars, poolVars, concVars>>

\* the processor connects the next plot or disconnects the tip, and sends
\* the TipChange to the registered channel (capacity 1)
ProcessorTip(connect, more) ==
    /\ env.tips < MaxTips
    /\ IF connect THEN env.chain < MaxChain ELSE env.chain > 1
    /\ env.registered => Len(env.tipChangeChan) < 1
    /\ LET height == IF connect THEN env.chain ELSE env.chain - 1
           tip == [ PlotID |-> ChainPlotID(height), Plot |-> ChainPlot(height),
                    Connect |-> connect, More |-> more ]
       IN  env' = [ env EXCEPT !.tips = @ + 1,
                               !.chain = IF connect THEN @ + 1 ELSE @ - 1,
                               !.tipChangeChan = IF env.registered THEN Append(@, tip) ELSE @ ]
    /\ UNCHANGED <<idx, graph, rank, plotVars, hasherVars, poolVars, concVars>>

InitIndexer ==
    /\ HasherIdle
    /\ PoolIdle
    /\ ConcIdle
    /\ plot = <<>>
    /\ calc = NoCalc
    /\ graph = NewGraph
    /\ rank = [ pc |-> "none", locals |-> NoLocals, links |-> 0 ]
    /\ \E start \in 0..1, download \in BOOLEAN, chain \in 1..MaxChain :
           /\ idx = [ pc |-> "new", latestPlotID |-> ChainPlotID(start), latestHeight |-> 0,
                      height |-> 0, ibd |-> FALSE, polled |-> FALSE ]
           /\ env = [ shutdown |-> FALSE, caller |-> "none", download |-> download,
                      chain |-> chain, tipChangeChan |-> nil, registered |-> FALSE,
                      wg |-> 0, tips |-> 0, log |-> <<>>, start |-> start ]

NextIndexer ==
    \/ Run
    \/ CheckDownload
    \/ PollDownload
    \/ WaitShutdown
    \/ GetHeader
    \/ WalkStep
    \/ LoopRank
    \/ ReturnRank
    \/ Register
    \/ ReceiveTip
    \/ TipShutdown
    \/ CallShutdown
    \/ ReturnShutdown
    \/ DownloadCompletes
    \/ \E connect \in BOOLEAN, more \in BOOLEAN : ProcessorTip(connect, more)

SpecIndexer == InitIndexer /\ [][NextIndexer]_vars

\* what the worker has indexed and ranked so far, in order
Log == env.log

\* the interactions from a to b among txs
RECURSIVE CountIn(_, _, _)
CountIn(txs, a, b) ==
    IF txs = <<>> THEN 0
    ELSE (IF pubKeyToString(Head(txs).From) = a /\ pubKeyToString(Head(txs).To) = b
          THEN 1 ELSE 0) + CountIn(Tail(txs), a, b)

\* the weight the indexed plots of a log give the edge a -> b: +1 per
\* interaction of a connected plot, -1 per interaction of a disconnected one
RECURSIVE LoggedWeight(_, _, _)
LoggedWeight(log, a, b) ==
    IF log = <<>> THEN 0
    ELSE (IF Head(log).e = "index"
          THEN (IF Head(log).connect THEN 1 ELSE -1)
               * CountIn(ChainPlot(Head(log).id[2]).Representations, a, b)
          ELSE 0) + LoggedWeight(Tail(log), a, b)

TipIndexed(i) == Log[i].e = "index" /\ Log[i].phase = "tip"

\* C22: in the tip-change phase every event's plot is linked interaction by
\* interaction with weight +1 when Connect is true and -1 when it is false,
\* and Rank is entered right after an event exactly when its More is
\* false: never between the events of a batch, always after its last one.
TipChangeIndexing ==
    /\ \A a \in Labels, b \in Labels : EdgeWeight(graph, a, b) = LoggedWeight(Log, a, b)
    /\ \A i \in 1..Len(Log) :
           TipIndexed(i) =>
               IF Log[i].more
               THEN i = Len(Log) \/ Log[i + 1].e # "rank"
               ELSE i < Len(Log) /\ Log[i + 1].e = "rank"
    /\ \A i \in 2..Len(Log) :
           Log[i].e = "rank" /\ (\E j \in 1..(i - 1) : Log[j].e = "register")
               => TipIndexed(i - 1) /\ ~Log[i - 1].more
    /\ rank.pc = "loop" => Len(Log) > 0 /\ Log[Len(Log)].e = "rank"

\* a batch of two events has been indexed, a disconnect with More and then
\* a connect without, and Rank was entered after the second only
TipChangeIndexingWitness ==
    \E i \in 1..Len(Log) :
        /\ i + 2 <= Len(Log)
        /\ TipIndexed(i) /\ ~Log[i].connect /\ Log[i].more
        /\ TipIndexed(i + 1) /\ Log[i + 1].connect /\ ~Log[i + 1].more
        /\ Log[i + 2].e = "rank"

---------------------------------------------------------------------------
(* The worker is a goroutine the scheduler keeps running, a select takes   *)
(* a case that stays ready, and Shutdown's caller is released by wg.Wait   *)
(* once the counter is zero.                                               *)

SpecIndexerFair ==
    /\ InitIndexer
    /\ [][NextIndexer]_vars
    /\ WF_vars(CheckDownload)
    /\ WF_vars(WaitShutdown)
    /\ WF_vars(GetHeader)
    /\ WF_vars(WalkStep)
    /\ WF_vars(LoopRank)
    /\ WF_vars(ReturnRank)
    /\ WF_vars(Register)
    /\ WF_vars(ReceiveTip)
    /\ WF_vars(TipShutdown)
    /\ WF_vars(ReturnShutdown)

\* C23: once Shutdown has closed the shutdown channel the worker returns,
\* whatever phase it is in; Shutdown returns only after the worker has
\* returned; and a worker that registered for tip changes has unregistered
\* when it has returned.
ShutdownStopsWorker ==
    /\ [](env.caller = "returned" => idx.pc = "done")
    /\ [](idx.pc = "done" => ~env.registered)
    /\ (env.shutdown ~> idx.pc = "done")

\* the same with every Rank returning: were no Rank to loop for ever, the
\* worker would return after Shutdown
ShutdownStopsWorkerIfRankReturns ==
    ([]<>(rank.pc # "loop")) => (env.shutdown ~> idx.pc = "done")

\* the plots indexed by the initial walk, and where the log holds an event
WalkIndexed(i) == Log[i].e = "index" /\ Log[i].phase = "walk"

Walked == Cardinality({ i \in 1..Len(Log) : WalkIndexed(i) })

LogHas(e) == \E i \in 1..Len(Log) : Log[i].e = e

RECURSIVE CountFrom(_, _, _, _)
CountFrom(height, n, a, b) ==
    IF n = 0 THEN 0
    ELSE CountIn(Representations(height), a, b) + CountFrom(height + 1, n - 1, a, b)

\* C27: the initial walk indexes the main-branch plot of each height from
\* the starting plot's height upward, once each and in increasing order,
\* with weight +1 per interaction; it ends at the first height the ledger
\* has no plot id for; Rank is then entered once; and only after that Rank
\* does the worker register for tip changes and enter the tip-change phase.
InitialWalkOrdered ==
    /\ \A i \in 1..Len(Log) :
           WalkIndexed(i) =>
               /\ i <= Walked
               /\ Log[i].id = ChainPlotID(env.start + i - 1)
               /\ Log[i].connect
    /\ idx.pc \in {"new", "check", "wait", "header", "walk"} =>
           /\ Len(Log) = Walked
           /\ idx.pc = "walk" => idx.height = env.start + Walked
    /\ Len(Log) > Walked =>
           /\ Log[Walked + 1].e = "rank"
           /\ Log[Walked + 1].height = env.start + Walked
           /\ Log[Walked + 1].chain <= env.start + Walked
    /\ Len(Log) = Walked + 1 =>
           \A a \in Labels, b \in Labels :
               EdgeWeight(graph, a, b) = CountFrom(env.start, Walked, a, b)
    /\ Len(Log) > Walked + 1 => Log[Walked + 2].e \in {"register"}
    /\ \A i \in 1..Len(Log) : Log[i].e = "register" => i = Walked + 2
    /\ env.registered \/ idx.pc \in {"tip", "tipranking"} =>
           LogHas("register")
    /\ idx.pc = "ranking" /\ rank.pc = "loop" => Len(Log) = Walked + 1

\* three plots were walked from height 0, Rank was entered once and has
\* returned, and the worker has registered and is in the tip-change phase
InitialWalkOrderedWitness ==
    /\ Walked = 3
    /\ env.start = 0
    /\ Len(Log) >= 5
    /\ Log[5].e = "register"
    /\ idx.pc = "tip"
    /\ env.registered

\* C28: while the initial plot download is still reported the worker makes
\* no Link and no Rank: it waits exactly when the first check reports a
\* download in progress, in the wait it only polls or returns on shutdown,
\* and it leaves the wait for the initial walk only by a poll that reports
\* the download complete.
NoIndexingDuringDownload ==
    [][ /\ idx.pc = "check" =>
               /\ idx'.pc = "wait" => env.download
               /\ idx'.pc = "header" => ~env.download
        /\ idx.pc = "wait" =>
               /\ graph = NewGraph /\ graph' = graph
               /\ rank.pc = "none" /\ rank' = rank
               /\ Log = <<>> /\ env'.log = Log
               /\ \/ idx'.pc = "wait"
                  \/ idx'.pc = "done" /\ env.shutdown
                  \/ idx'.pc = "header" /\ ~env.download /\ idx'.polled
        /\ idx'.pc \in {"header", "walk"} /\ idx.pc \notin {"header", "walk"} =>
               idx.pc \in {"check", "wait"} /\ ~env.download
      ]_vars

\* the worker waited, a poll reported the download complete, and the walk
\* has indexed a plot
NoIndexingDuringDownloadWitness ==
    /\ idx.polled
    /\ idx.pc = "walk"
    /\ Walked >= 1

---------------------------------------------------------------------------
(* The pool under every batch, those that hold an id twice included.       *)

RepeatingBatches == SeqsUpTo(Interactions, MaxBatch) \ Batches

NextPoolAny ==
    \/ NextPool
    \/ \E txs \in RepeatingBatches, height \in Heights : CallAddBatch(txs, height)

SpecPoolAny == InitPool /\ [][NextPoolAny]_vars

\* C29: in every reachable pool state the id map and the queue agree: the
\* keys of the map are the ids of the queued interactions, each key maps
\* to the element that holds its interaction, no id is queued twice and
\* Len() is the number of keys, whatever Add, AddBatch and RemoveBatch
\* calls were made, batches with a queued id or a repeated id included.
MapMatchesQueue ==
    /\ DOMAIN txMap = { InteractionID(txQueue[i]) : i \in 1..Len(txQueue) }
    /\ \A id \in DOMAIN txMap :
           /\ txMap[id] \in 1..Len(txQueue)
           /\ InteractionID(txQueue[txMap[id]]) = id
    /\ \A i, j \in 1..Len(txQueue) :
           InteractionID(txQueue[i]) = InteractionID(txQueue[j]) => i = j
    /\ QueueLen(Pool) = Cardinality(DOMAIN txMap)
    /\ last.op = "Len" => last.res.n = Cardinality(DOMAIN txMap)

\* an AddBatch of the same id twice, the id being queued already, on a
\* queue that held another interaction as well
MapMatchesQueueWitness ==
    /\ last.op = "AddBatch"
    /\ Len(last.args.ids) = 2
    /\ last.args.ids[1] = last.args.ids[2]
    /\ last.args.ids[1] \in DOMAIN last.preMap
    /\ Len(last.preQueue) >= 2

---------------------------------------------------------------------------
(* Link and Rank calls over two public keys.                               *)

LinkKeys == {"A", "B"}

NextLink ==
    \/ \E source \in LinkKeys, target \in LinkKeys, weight \in Weights :
           CallLink(source, target, weight)
    \/ CallRank
    \/ LoopRank
    \/ ReturnRank

SpecLink == InitGraph /\ [][NextLink]_vars

--------------------------------------------------------------------------
(* Add between a batch call and the revalidation that follows it.          *)

RECURSIVE FundsAfter(_, _, _)
\* what pk holds given the ledger and the first i interactions of queue
FundsAfter(queue, i, pk) ==
    IF i = 0 THEN LedgerBalance(pk)
    ELSE LET tx == queue[i]
             before == FundsAfter(queue, i - 1, pk)
             debit == IF ~IsPlotroot(tx) /\ tx.From = pk THEN tx.Amount ELSE 0
             credit == IF tx.To = pk THEN tx.Amount ELSE 0
         IN  before - debit + credit

\* the sender of tx can afford it on top of everything queued
CanAfford(queue, tx) ==
    IsPlotroot(tx) \/ FundsAfter(queue, Len(queue), tx.From) >= tx.Amount

\* C31: Add accepts an interaction only if its sender can afford it given
\* the ledger balance and all interactions queued at that moment, and rejects
\* for insufficient balance only if the sender cannot, in every reachable
\* pool state: between an AddBatch and the next revalidating RemoveBatch and
\* after a RemoveBatch that defers revalidation as well.
AddChecksQueuedFunds ==
    Added =>
        /\ last.res.ok => CanAfford(last.preQueue, last.args.tx)
        /\ (~last.res.ok /\ last.res.err = "insufficient imbalance") =>
               ~CanAfford(last.preQueue, last.args.tx)

\* the same, for an Add that follows a revalidation with no batch call in
\* between
AddChecksQueuedFundsRevalidated ==
    (Added /\ addLog.revalidated) =>
        /\ last.res.ok => CanAfford(last.preQueue, last.args.tx)
        /\ (~last.res.ok /\ last.res.err = "insufficient imbalance") =>
               ~CanAfford(last.preQueue, last.args.tx)

\* an Add accepted on a queue that AddBatch filled and nothing revalidated:
\* the sender owes more than it holds
AddOverdrawsAfterBatch ==
    /\ Added
    /\ ~addLog.revalidated
    /\ last.res.ok
    /\ ~CanAfford(last.preQueue, last.args.tx)

\* an Add rejected after a RemoveBatch that deferred revalidation although
\* the sender can afford it
AddRejectsAfterDeferredRemove ==
    /\ Added
    /\ ~addLog.revalidated
    /\ ~last.res.ok
    /\ last.res.err = "insufficient imbalance"
    /\ CanAfford(last.preQueue, last.args.tx)

--------------------------------------------------------------------------
(* The hasher's buffer is allocated once.  The header's fields take their  *)
(* shortest and their longest non-negative values.                         *)

WideTimes == { I64(0), MaxInt64 }
WideNonces == { I64(0), MaxInt64 }
WideCounts == { 1, MaxInt32 }
WideHeights == { I64(12), MaxInt64 }

InitHasherWide ==
    /\ \E height \in WideHeights : header = FirstHeader(height)
    /\ hasher = NewPlotHeaderHasher
    /\ PoolIdle
    /\ ConcIdle
    /\ PlotIdle
    /\ IndexerIdle

NextHasherWide ==
    \E root \in HashListRoots, time \in WideTimes, nonce \in WideNonces,
       count \in WideCounts :
        IDFast(root, time, nonce, count)

SpecHasherWide == InitHasherWide /\ [][NextHasherWide]_vars

NonNegativeHeader(hd) ==
    /\ ~hd.Time.neg
    /\ ~hd.Nonce.neg
    /\ ~hd.Height.neg
    /\ hd.InteractionCount >= 0

\* C32: for every header whose time, nonce and height are non-negative
\* 64-bit values and whose interaction_count is a non-negative 32-bit value,
\* bufLen never exceeds the length of the buffer NewPlotHeaderHasher
\* allocated, after initBuffer and after any sequence of Update calls, and
\* the buffer still has the allocated length: every write landed inside it.
BufferNeverGrows ==
    NonNegativeHeader(header) =>
        /\ Len(hasher.buffer) = Len(NewPlotHeaderHasher.buffer)
        /\ hasher.bufLen <= Len(hasher.buffer)

\* the longest serialisation there is has been written: time, nonce and
\* height of 19 characters, the count of 10, the closing brace in the last
\* byte of the buffer
BufferNeverGrowsWitness ==
    /\ hasher.initialized
    /\ NonNegativeHeader(header)
    /\ header.Time = MaxInt64
    /\ header.Nonce = MaxInt64
    /\ header.Height = MaxInt64
    /\ header.InteractionCount = MaxInt32
    /\ hasher.timeLen = 19
    /\ hasher.nonceLen = 19
    /\ hasher.txCountLen = 10
    /\ hasher.bufLen = Len(hasher.buffer)
    /\ hasher.buffer[hasher.bufLen] = 125

\* the header shrank after the longest serialisation was written: the brace
\* it left in the last byte is past the end of the text
BufferShrunk ==
    /\ hasher.initialized
    /\ hasher.bufLen < Len(hasher.buffer)
    /\ hasher.buffer[Len(hasher.buffer)] = 125

--------------------------------------------------------------------------
(* The plot's count and its plotroot while it is scribed.                  *)

\* C33: after NewPlot and after any sequence of successful AddInteraction
\* calls the header's interaction_count is the number of interactions in the
\* plot, and interactions[0] is the interaction that was first when the plot
\* was created: no step of a built plot changes it, and each AddInteraction
\* lengthens the list by one at its end.
CountAndPlotrootKept ==
    [][ plot'.state = "built" =>
          /\ plot'.Header.InteractionCount = Len(plot'.Interactions)
          /\ Len(plot'.Interactions) >= 1
          /\ plot.state = "built" =>
                /\ plot'.Interactions[1] = plot.Interactions[1]
                /\ Len(plot'.Interactions) = Len(plot.Interactions) + 1
                /\ SubSeq(plot'.Interactions, 1, Len(plot.Interactions))
                       = plot.Interactions ]_vars

\* a plot created with its plotroot and one interaction and grown by
\* AddInteraction calls, one of them adding the first interaction again
CountAndPlotrootKeptWitness ==
    /\ plot.state = "built"
    /\ plot.Header.InteractionCount = MaxPlotLen
    /\ plot.Interactions[1] = R1
    /\ plot.Interactions[2] = T3
    /\ plot.Interactions[MaxPlotLen] = T3
    /\ plot.Interactions[MaxPlotLen - 1] # T3

--------------------------------------------------------------------------
(* The graph's index over Link and Reset calls.                            *)

\* Graph.Reset clears all the current graph data
GraphReset == [ index |-> EmptyMap, nodes |-> EmptyMap, edges |-> EmptyMap ]

CallReset ==
    /\ rank.pc # "loop"
    /\ calc.op # "Reset"
    /\ graph' = GraphReset
    /\ calc' = [ op |-> "Reset", g |-> graph ]
    /\ UNCHANGED <<rank, idx, env, plot, hasherVars, poolVars, concVars>>

NextIndex ==
    \/ \E source \in GraphKeys, target \in GraphKeys, weight \in Weights :
           CallLink(source, target, weight)
    \/ CallReset

SpecIndex == InitGraph /\ [][NextIndex]_vars

\* C34: after any sequence of Link calls since creation or Reset the index
\* maps the N distinct labels seen so far one-to-one onto 0..N-1, nodes has
\* exactly those N indices with nodes[index[l]].label = l; a Link keeps the
\* index of every label it found, adds its own two labels and nothing else,
\* and removes no node, also when an edge weight or an outbound returns to
\* zero; after Reset no label has been seen.
IndexIsDense ==
    LET N == Cardinality(DOMAIN graph.index) IN
    /\ { graph.index[l] : l \in DOMAIN graph.index } = 0..(N - 1)
    /\ \A l, m \in DOMAIN graph.index : graph.index[l] = graph.index[m] => l = m
    /\ DOMAIN graph.nodes = 0..(N - 1)
    /\ \A l \in DOMAIN graph.index : graph.nodes[graph.index[l]].label = l
    /\ calc.op = "none" => N = 0
    /\ calc.op = "Reset" => N = 0
    /\ calc.op = "Link" =>
          /\ DOMAIN graph.index = DOMAIN calc.g.index \cup {calc.source, calc.target}
          /\ \A l \in DOMAIN calc.g.index : graph.index[l] = calc.g.index[l]
          /\ DOMAIN calc.g.nodes \subseteq DOMAIN graph.nodes

\* three labels are indexed and the Link just made took an edge weight and
\* its source's outbound back to zero
IndexIsDenseWitness ==
    /\ calc.op = "Link"
    /\ calc.weight = -1
    /\ Cardinality(DOMAIN graph.index) = 3
    /\ Cardinality(DOMAIN calc.g.index) = 3
    /\ EdgeWeight(calc.g, calc.source, calc.target) = 1
    /\ EdgeWeight(graph, calc.source, calc.target) = 0
    /\ Outbound(graph, calc.source) = 0

\* labels are indexed again from 0 after a Reset
IndexAfterReset ==
    /\ calc.op = "Link"
    /\ rank.links >= 3
    /\ Cardinality(DOMAIN calc.g.index) = 0
    /\ graph.index[calc.source] = 0

--------------------------------------------------------------------------
(* indexRepresentations called for any plots in any order, connected or    *)
(* disconnected.  One connect is marked: the graph before it is kept,      *)
(* and the calls after it are listed until the same plot is disconnected.  *)

\* the number of indexRepresentations calls
MaxIndexed == 5

NoMark == [ mark |-> "none", height |-> 0, before |-> NewGraph, between |-> <<>> ]

\* the marking after a call of (height, connect) on graph g: a connect may be
\* marked while none is; the disconnect of the marked plot closes the list
Marked(c, g, height, connect) ==
    IF c.mark = "open"
    THEN IF ~connect /\ height = c.height
         THEN { [ c EXCEPT !.mark = "closed" ] }
         ELSE { [ c EXCEPT !.between = Append(@, [ e |-> "index", id |-> ChainPlotID(height),
                                                   connect |-> connect ]) ] }
    ELSE { [ NoMark EXCEPT !.mark = "none" ] }
         \cup IF connect
              THEN { [ mark |-> "open", height |-> height, before |-> g,
                       between |-> <<>> ] }
              ELSE {}

CallIndexRepresentations(height, connect) ==
    /\ calc.calls < MaxIndexed
    /\ LET r == indexRepresentations(idx, graph, ChainPlot(height), ChainPlotID(height),
                                     connect)
       IN  /\ idx' = r.idx
           /\ graph' = r.graph
    /\ \E m \in Marked(calc.marked, graph, height, connect) :
           calc' = [ calc EXCEPT !.calls = @ + 1, !.marked = m ]
    /\ UNCHANGED <<rank, env, plot, hasherVars, poolVars, concVars>>

InitReindex ==
    /\ HasherIdle
    /\ PoolIdle
    /\ ConcIdle
    /\ plot = <<>>
    /\ calc = [ op |-> "indexRepresentations", calls |-> 0, marked |-> NoMark ]
    /\ graph = NewGraph
    /\ rank = <<>>
    /\ idx = [ latestPlotID |-> nil, latestHeight |-> 0 ]
    /\ env = <<>>

NextReindex ==
    \E height \in 0..(MaxChain - 1), connect \in BOOLEAN :
        CallIndexRepresentations(height, connect)

SpecReindex == InitReindex /\ [][NextReindex]_vars

\* the weights of a's outgoing edges, added up
OutgoingSum(g, a) ==
    LET sum[S \in SUBSET Labels] ==
            IF S = {} THEN 0
            ELSE LET b == CHOOSE x \in S : TRUE
                 IN  EdgeWeight(g, a, b) + sum[S \ {b}]
    IN  sum[Labels]

\* what the indexed plots of a log give the outbound of a
LoggedOutgoing(log, a) ==
    LET sum[S \in SUBSET Labels] ==
            IF S = {} THEN 0
            ELSE LET b == CHOOSE x \in S : TRUE
                 IN  LoggedWeight(log, a, b) + sum[S \ {b}]
    IN  sum[Labels]

OutboundIsEdgeSum ==
    \A a \in Labels : Outbound(graph, a) = OutgoingSum(graph, a)

\* the marked plot was connected and has just been disconnected, and every
\* plot indexed in between is another plot
Reconnected ==
    /\ calc.marked.mark = "closed"
    /\ \A i \in 1..Len(calc.marked.between) :
           calc.marked.between[i].id # ChainPlotID(calc.marked.height)

\* C35 as stated: indexing a plot as connected and later as disconnected
\* restores every edge weight and every node's outbound to the value it had
\* before the connect, whatever other plots were indexed in between; and in
\* every reachable graph state each node's outbound is the sum of the weights
\* of its outgoing edges.
DisconnectRestores ==
    /\ Reconnected =>
           /\ \A a \in Labels, b \in Labels :
                  EdgeWeight(graph, a, b) = EdgeWeight(calc.marked.before, a, b)
           /\ \A a \in Labels : Outbound(graph, a) = Outbound(calc.marked.before, a)
    /\ OutboundIsEdgeSum

\* C35 amended: indexing a plot as connected and later as disconnected
\* leaves every edge weight and every node's outbound at the value it had
\* before the connect plus what the other plots indexed in between added to
\* it or took from it, so the plot's own interactions cancel whatever was
\* indexed in between; and in every reachable graph state each node's
\* outbound is the sum of the weights of its outgoing edges.
DisconnectCancelsConnect ==
    /\ Reconnected =>
           /\ \A a \in Labels, b \in Labels :
                  EdgeWeight(graph, a, b) =
                      EdgeWeight(calc.marked.before, a, b)
                      + LoggedWeight(calc.marked.between, a, b)
           /\ \A a \in Labels :
                  Outbound(graph, a) =
                      Outbound(calc.marked.before, a)
                      + LoggedOutgoing(calc.marked.between, a)
    /\ OutboundIsEdgeSum

\* a plot was connected on a graph that had edges, two other plots were
\* indexed, one connected and one disconnected, and the plot was disconnected:
\* an edge of the graph is not at the weight it had before the connect
DisconnectCancelsConnectWitness ==
    /\ Reconnected
    /\ Len(calc.marked.between) = 2
    /\ calc.marked.between[1].connect
    /\ ~calc.marked.between[2].connect
    /\ calc.marked.before # NewGraph
    /\ \E a \in Labels, b \in Labels :
           EdgeWeight(graph, a, b) # EdgeWeight(calc.marked.before, a, b)

--------------------------------------------------------------------------
(* The graph against the main branch once the worker has caught up.        *)

\* the worker is at the select of its tip loop, registered, and no tip
\* change is waiting in its channel
CaughtUp ==
    /\ AtTipSelect
    /\ env.registered
    /\ env.tipChangeChan = <<>>

\* the interactions from a to b in the plots now on the main branch, from
\* the height the worker started at
OnMainBranch(a, b) ==
    IF env.chain > env.start THEN CountFrom(env.start, env.chain - env.start, a, b)
    ELSE 0

\* C36: once the indexer is in its tip-change phase and has processed every
\* tip change emitted so far, every edge weight is the number of interactions
\* from -> to in the plots currently on the main branch and latestPlotID and
\* latestHeight name the current tip, also when plots were connected or
\* disconnected between the end of the initial walk and the registration.
GraphMatchesMainBranch ==
    CaughtUp =>
        /\ \A a \in Labels, b \in Labels : EdgeWeight(graph, a, b) = OnMainBranch(a, b)
        /\ idx.latestPlotID = ChainPlotID(env.chain - 1)
        /\ idx.latestHeight = env.chain - 1

\* the processor connected a plot after the walk had ended and before the
\* worker registered; the worker has caught up, has received no tip change,
\* and its graph lacks the plot's interaction
MissedConnectBeforeRegister ==
    /\ CaughtUp
    /\ Len(Log) = Walked + 2
    /\ Log[Walked + 1].e = "rank"
    /\ Log[Walked + 1].chain = env.start + Walked
    /\ env.chain = Log[Walked + 1].chain + 1
    /\ env.tips = 1
    /\ idx.latestHeight = env.chain - 2
    /\ \E a \in Labels, b \in Labels : EdgeWeight(graph, a, b) < OnMainBranch(a, b)

==========================================================================
